---------------------------- MODULE Spec2Model ----------------------------
(***************************************************************************)
(* ATT/GATT engine of the BLE host: attribute table and its builders       *)
(* (attribute.rs), the attribute server with its notification table        *)
(* (attribute_server.rs), the GATT server loop (gatt.rs) and the split     *)
(* event bridge (gatt/split.rs).                                           *)
(*                                                                         *)
(* Bytes are naturals in 0..255, byte strings are sequences of bytes and   *)
(* UUIDs are their raw little-endian byte strings (2 or 16 bytes).         *)
(***************************************************************************)
EXTENDS Integers, Sequences, FiniteSets, TLC

VARIABLES
    attributes,       \* InnerTable.attributes[..len]: the stored attributes, in order
    table_handle,     \* AttributeTable.handle: the next handle to hand out
    service_builder,  \* the live ServiceBuilder, if any: [active, start, handle]
    char_builder,     \* descriptors added through the live CharacteristicBuilder; -1: none
    sealed,           \* history: one record per dropped ServiceBuilder
    built,            \* history: the Characteristic of every CharacteristicBuilder, in order
    notification,     \* NotificationTable.state: MAX_NOTIFICATIONS entries <<cccd_handle, conn>>
    connected,        \* connection handles get_connected_handle() knows as connected
    last_call,        \* history: the latest set_notify call and what it found
    att_in,           \* the request GattServer::process took since the latest notify call: [conn, req, h]
    att_out,          \* what became of it: [kind, bytes], bytes the L2CAP frame sent
    att_count,        \* requests and notify calls taken so far
    notified,         \* the notify call made since the latest request, if any
    exchange_area,    \* ExchangeArea: [request, response, buf]
    runner,           \* GattRunner::run: where the dispatcher stands, [pc, conn, req, resumed]
    foreground,       \* the task polling GattEvents::next: [pc, handle, offset, fetched]
    table_locked,     \* the table mutex is held (by a handler of the dispatcher)
    client            \* GattClient and the discovery call it is in: [pc, start, end, ...]

tableVars == <<attributes, table_handle, service_builder, char_builder, sealed, built>>
notifVars == <<notification, connected, last_call>>
attVars == <<att_in, att_out, att_count, notified>>
splitVars == <<exchange_area, runner, foreground, table_locked>>

vars == <<tableVars, notifVars, attVars, splitVars, client>>

-----------------------------------------------------------------------------
(* Bounds of the model *)

\* InnerTable<MAX>: capacity of the attribute table under construction
MAX == 15

\* descriptors added to one characteristic
MaxDescriptors == 1

\* the largest connection handle in use; connection handles are 0..MaxConn
MaxConn == 1

\* GattServer<.., L2CAP_MTU>: the size of the frame buffer
L2CAP_MTU == 27

\* requests the server loop takes in one run
MaxRequests == 2
MAX_SERVICES == 3

\* PDUs the peer sends to the client in one run
MaxPdus == 3
MaxCalls == 2

-----------------------------------------------------------------------------
(* Bytes and UUIDs *)

u16_le(v) == <<v % 256, (v \div 256) % 256>>

\* bit is a power of two: (v & bit) != 0
HasBit(v, bit) == (v \div bit) % 2 = 1

PRIMARY_SERVICE_UUID16 == <<0, 40>>          \* 0x2800
CHARACTERISTIC_UUID16 == <<3, 40>>           \* 0x2803
CHARACTERISTIC_CCCD_UUID16 == <<2, 41>>      \* 0x2902

\* sample UUIDs handed to the builders
BATTERY_SERVICE_UUID16 == <<15, 24>>         \* 0x180F
BATTERY_LEVEL_UUID16 == <<25, 42>>           \* 0x2A19
DEVICE_NAME_UUID16 == <<0, 42>>              \* 0x2A00
CUSTOM_UUID128 == <<1, 2, 3, 4, 5, 6, 7, 8, 9, 10, 11, 12, 13, 14, 15, 16>>

\* CharacteristicProp
PROP_READ == 2
PROP_WRITE_WITHOUT_RESPONSE == 4
PROP_WRITE == 8
PROP_NOTIFY == 16
PROP_INDICATE == 32
PROP_AUTHENTICATED_WRITE == 64

\* a faulty CharacteristicProps::any(&[Notify, Indicate]): Indicate is not looked at
AnyNotify(props) == HasBit(props, PROP_NOTIFY)

\* CharacteristicProps::any(&[Notify, Indicate])
AnyNotifyIndicate(props) == HasBit(props, PROP_NOTIFY) \/ HasBit(props, PROP_INDICATE)

-----------------------------------------------------------------------------
(* AttributeData variants *)

DataService(uuid) == [kind |-> "Service", uuid |-> uuid]
DataReadOnly(props) == [kind |-> "ReadOnlyData", props |-> props]
DataData(props) == [kind |-> "Data", props |-> props]
DataDeclaration(props, value_handle, uuid) ==
    [kind |-> "Declaration", props |-> props, handle |-> value_handle, uuid |-> uuid]
DataCccd(notifications, indications) ==
    [kind |-> "Cccd", notifications |-> notifications, indications |-> indications]

-----------------------------------------------------------------------------
(* AttributeTable and its builders, as functions of the table state         *)
(* t = [attributes, handle]                                                 *)

\* AttributeTable::new
TableNew == [attributes |-> <<>>, handle |-> 1]

\* a faulty AttributeTable::push: the handle does not advance
TablePushSameHandle(t, uuid, data) ==
    [attributes |-> Append(t.attributes,
                           [uuid |-> uuid, handle |-> t.handle,
                            last_handle_in_group |-> 0, data |-> data]),
     handle |-> t.handle]

\* AttributeTable::push: the attribute gets the current handle, which then advances.
\* The builders pass last_handle_in_group: 0.
TablePush(t, uuid, data) ==
    [attributes |-> Append(t.attributes,
                           [uuid |-> uuid, handle |-> t.handle,
                            last_handle_in_group |-> 0, data |-> data]),
     handle |-> t.handle + 1]

\* AttributeTable::add_service
TableAddService(t, uuid) == TablePush(t, PRIMARY_SERVICE_UUID16, DataService(uuid))

\* a faulty add_characteristic_internal: the declaration names its own handle
TableAddCharacteristicOwnHandle(t, uuid, props, data) ==
    LET t1 == TablePush(t, CHARACTERISTIC_UUID16, DataDeclaration(props, t.handle, uuid))
        t2 == TablePush(t1, uuid, data)
    IN  IF HasBit(props, PROP_NOTIFY) \/ HasBit(props, PROP_INDICATE)
        THEN TablePush(t2, CHARACTERISTIC_CCCD_UUID16, DataCccd(FALSE, FALSE))
        ELSE t2

\* a faulty add_characteristic_internal: no CCCD for a characteristic that
\* has Indicate without Notify
TableAddCharacteristicNotifyOnly(t, uuid, props, data) ==
    LET next == t.handle + 1
        t1 == TablePush(t, CHARACTERISTIC_UUID16, DataDeclaration(props, next, uuid))
        t2 == TablePush(t1, uuid, data)
    IN  IF AnyNotify(props)
        THEN TablePush(t2, CHARACTERISTIC_CCCD_UUID16, DataCccd(FALSE, FALSE))
        ELSE t2

\* ServiceBuilder::add_characteristic_internal: declaration, value, optional CCCD
TableAddCharacteristic(t, uuid, props, data) ==
    LET next == t.handle + 1
        t1 == TablePush(t, CHARACTERISTIC_UUID16, DataDeclaration(props, next, uuid))
        t2 == TablePush(t1, uuid, data)
    IN  IF AnyNotifyIndicate(props)
        THEN TablePush(t2, CHARACTERISTIC_CCCD_UUID16, DataCccd(FALSE, FALSE))
        ELSE t2

\* the Characteristic the CharacteristicBuilder holds (and build() returns)
BuiltCharacteristic(t, props) ==
    [handle |-> t.handle + 1,
     cccd_handle |-> IF AnyNotifyIndicate(props) THEN t.handle + 2 ELSE 0]

\* Error::NotFound of find_characteristic_by_value_handle
CharacteristicNotFound == [handle |-> 0, cccd_handle |-> 0]

\* AttributeTable::find_characteristic_by_value_handle: the first attribute
\* with the handle, with the handle of the attribute behind it if that is a
\* CCCD (cccd_handle 0: None)
FindCharacteristicByValueHandle(attrs, handle) ==
    LET At == {i \in 1..Len(attrs) : attrs[i].handle = handle}
        Found(i) ==
            [handle |-> handle,
             cccd_handle |-> IF i < Len(attrs) /\ attrs[i + 1].data.kind = "Cccd"
                             THEN attrs[i + 1].handle ELSE 0]
    IN  IF At = {} THEN CharacteristicNotFound
        ELSE Found(CHOOSE i \in At : \A j \in At : i <= j)

\* number of attributes add_characteristic_internal pushes
CharacteristicSize(props) == IF AnyNotifyIndicate(props) THEN 3 ELSE 2

\* CharacteristicBuilder::add_descriptor_internal
TableAddDescriptor(t, uuid, data) == TablePush(t, uuid, data)

\* the value Drop for ServiceBuilder stamps into last_handle_in_group
DropLastHandle(h) == h + 1

\* a faulty seal: next_handle advanced by a whole group, not aligned
DropNextHandleUnaligned(h) == h + 16

\* the handle Drop for ServiceBuilder leaves in the table: jump to next 16-aligned
DropNextHandle(h) == h + (16 - (h % 16))

\* Drop for ServiceBuilder: stamp attributes[start..len], then align the handle
TableDrop(t, start) ==
    [attributes |-> [i \in 1..Len(t.attributes) |->
                        IF i > start
                        THEN [t.attributes[i] EXCEPT
                                !.last_handle_in_group = DropLastHandle(t.handle)]
                        ELSE t.attributes[i]],
     handle |-> DropNextHandle(t.handle)]

-----------------------------------------------------------------------------
(* The attribute table the server runs on                                   *)

\* a built table: two services, the first with a Write|Notify and a
\* read-only characteristic, the second (at the 16-aligned handle) with a
\* Read|Notify and a 128-bit Read|Write characteristic
SampleTable ==
    LET s1 == TableAddService(TableNew, DEVICE_NAME_UUID16)
        c1 == TableAddCharacteristic(s1, BATTERY_LEVEL_UUID16, PROP_WRITE + PROP_NOTIFY,
                                     DataData(PROP_WRITE + PROP_NOTIFY))
        c2 == TableAddCharacteristic(c1, DEVICE_NAME_UUID16, PROP_READ,
                                     DataReadOnly(PROP_READ))
        d1 == TableDrop(c2, 0)
        s2 == TableAddService(d1, BATTERY_SERVICE_UUID16)
        c3 == TableAddCharacteristic(s2, BATTERY_LEVEL_UUID16, PROP_READ + PROP_NOTIFY,
                                     DataData(PROP_READ + PROP_NOTIFY))
        c4 == TableAddCharacteristic(c3, CUSTOM_UUID128, PROP_READ + PROP_WRITE,
                                     DataData(PROP_READ + PROP_WRITE))
    IN  TableDrop(c4, Len(d1.attributes))

\* the Characteristics the four CharacteristicBuilders of that table hold
SampleBuilt ==
    <<[handle |-> 3, cccd_handle |-> 4], [handle |-> 6, cccd_handle |-> 0],
      [handle |-> 18, cccd_handle |-> 19], [handle |-> 21, cccd_handle |-> 0]>>

\* the handles of the CCCD attributes of a table
CccdHandlesOf(attrs) ==
    {attrs[i].handle : i \in {j \in 1..Len(attrs) : attrs[j].data.kind = "Cccd"}}

CccdHandles == CccdHandlesOf(SampleTable.attributes)

\* ConnHandle values of the peers
Conns == 0..MaxConn

-----------------------------------------------------------------------------
(* Byte strings and the write cursor                                        *)

Min(a, b) == IF a < b THEN a ELSE b

\* seq[..n] and seq[n..]
Take(seq, n) == SubSeq(seq, 1, n)
Drop(seq, n) == SubSeq(seq, n + 1, Len(seq))

\* n bytes
Fill(n) == [i \in 1..n |-> 170]

\* buf with bytes copied to buf[pos .. pos + len(bytes)]
Overlay(buf, pos, bytes) ==
    [i \in 1..Len(buf) |->
        IF i > pos /\ i <= pos + Len(bytes) THEN bytes[i - pos] ELSE buf[i]]

\* WriteCursor over a buffer; ok turns FALSE at the first operation that does
\* not fit (where the code leaves with `?`) and the later ones have no effect
CursorNew(buf) == [data |-> buf, pos |-> 0, ok |-> TRUE]
CursorAvailable(w) == Len(w.data) - w.pos
CursorAppend(w, bytes) ==
    IF w.ok /\ CursorAvailable(w) >= Len(bytes)
    THEN [data |-> Overlay(w.data, w.pos, bytes), pos |-> w.pos + Len(bytes), ok |-> TRUE]
    ELSE [w EXCEPT !.ok = FALSE]
CursorCommit(w, len) ==
    IF w.ok /\ CursorAvailable(w) >= len
    THEN [w EXCEPT !.pos = @ + len]
    ELSE [w EXCEPT !.ok = FALSE]
CursorWriteBuf(w) == Drop(w.data, w.pos)
\* the buffer after the slice write_buf() handed out was filled with out
CursorFilled(w, out) == [w EXCEPT !.data = Take(w.data, w.pos) \o out]
CursorReset(w) == [w EXCEPT !.pos = 0]
CursorBytes(w) == Take(w.data, w.pos)

-----------------------------------------------------------------------------
(* ATT opcodes and error codes                                              *)

ATT_ERROR_RSP == 1
ATT_FIND_INFORMATION_REQ == 4
ATT_FIND_INFORMATION_RSP == 5
ATT_FIND_BY_TYPE_VALUE_REQ == 6
ATT_FIND_BY_TYPE_VALUE_RSP == 7
ATT_READ_BY_TYPE_REQ == 8
ATT_READ_BY_TYPE_RSP == 9
ATT_READ_REQ == 10
ATT_READ_RSP == 11
ATT_READ_BLOB_REQ == 12
ATT_READ_BLOB_RSP == 13
ATT_READ_MULTIPLE_REQ == 14
ATT_READ_BY_GROUP_TYPE_REQ == 16
ATT_READ_BY_GROUP_TYPE_RSP == 17
ATT_WRITE_REQ == 18
ATT_WRITE_RSP == 19
ATT_HANDLE_VALUE_NTF == 27
ATT_PREPARE_WRITE_REQ == 22
ATT_PREPARE_WRITE_RSP == 23
ATT_EXECUTE_WRITE_REQ == 24
ATT_EXECUTE_WRITE_RSP == 25

\* AttErrorCode
ReadNotPermitted == 2
WriteNotPermitted == 3
InsufficientAuthentication == 5
InvalidOffset == 7
AttributeNotFound == 10
UnlikelyError == 14

\* the AttErrorCode a codec::Error turns into inside the value codec
CodecErrorCode == UnlikelyError

\* a faulty Uuid::get_type: the length of the UUID in bytes
UuidTypeInBytes(uuid) == Len(uuid)

\* Uuid::get_type
UuidType(uuid) == IF Len(uuid) = 2 THEN 1 ELSE 2

-----------------------------------------------------------------------------
(* AttributeData: the value codec                                           *)

\* AttributeData::readable
Readable(data) ==
    IF data.kind = "Data" THEN HasBit(data.props, PROP_READ) ELSE TRUE

\* AttributeData::writable
Writable(data) ==
    CASE data.kind = "Data" ->
            \/ HasBit(data.props, PROP_WRITE)
            \/ HasBit(data.props, PROP_WRITE_WITHOUT_RESPONSE)
            \/ HasBit(data.props, PROP_AUTHENTICATED_WRITE)
      [] data.kind = "Cccd" -> TRUE
      [] OTHER -> FALSE

\* results of a read: Err(code), or Ok(len) with the filled out slice
ReadErr(code, out) == [err |-> code, len |-> 0, out |-> out]
ReadOk(len, out) == [err |-> 0, len |-> len, out |-> out]

\* the result of a read that panicked; no AttErrorCode (a u8) has this value
PanicCode == 256

\* GattHandler::read of &ExchangeArea once the response was signalled: the
\* whole buffer is copied to data[..buf.len()], which panics on a shorter slice
BridgedRead(buf, out) ==
    IF Len(buf) > Len(out) THEN ReadErr(PanicCode, out)
    ELSE ReadOk(Len(buf), Overlay(out, 0, buf))

\* the bytes a user's handler serves from its value at offset into the slice
ServedLen(value, offset, out) ==
    Min(Len(out), IF offset > Len(value) THEN 0 ELSE Len(value) - offset)

\* the AttrHandler::read handed to process, for h = [rd_err, value, wr_err,
\* bridged]: the split bridge holding value in its buffer, or a user's handler
\* that serves value[offset..] clamped to the slice or fails with rd_err
HandlerRead(h, offset, out) ==
    IF h.bridged THEN BridgedRead(h.value, out)
    ELSE IF h.rd_err # 0 THEN ReadErr(h.rd_err, out)
    ELSE ReadOk(ServedLen(h.value, offset, out),
                Overlay(out, 0, SubSeq(h.value, offset + 1,
                                       offset + ServedLen(h.value, offset, out))))

\* the user's AttrHandler::write: Ok(()) or Err(wr_err)
HandlerWrite(h, offset, bytes) == h.wr_err

\* AttributeData::read for the Cccd variant: only data[0] is written
CccdRead(data, offset, out) ==
    IF offset > 0 THEN ReadErr(InvalidOffset, out)
    ELSE IF Len(out) < 2 THEN ReadErr(UnlikelyError, out)
    ELSE ReadOk(2, Overlay(out, 0,
                   <<(IF data.notifications THEN 1 ELSE 0)
                     + (IF data.indications THEN 2 ELSE 0)>>))

\* Declaration read: what is written ahead of the uuid, by offset
DeclarationHead(data, offset, w) ==
    IF offset = 0
    THEN CursorAppend(CursorAppend(w, <<data.props>>), u16_le(data.handle))
    ELSE IF offset = 1 THEN CursorAppend(w, u16_le(data.handle))
    ELSE IF offset = 2 THEN CursorAppend(w, <<u16_le(data.handle)[2]>>)
    ELSE w

\* Declaration read: the uuid, from its start, as far as there is room
DeclarationTail(w, val) ==
    IF Min(CursorAvailable(w), Len(val)) > 0
    THEN CursorAppend(w, Take(val, Min(CursorAvailable(w), Len(val))))
    ELSE w

\* Ok(w.len()) of a cursor over the slice, or the error of a failed write
ReadWritten(w) ==
    IF w.ok THEN ReadOk(w.pos, w.data) ELSE ReadErr(CodecErrorCode, w.data)

\* AttributeData::read for the Declaration variant
DeclarationRead(data, offset, out) ==
    IF offset > Len(data.uuid) + 3 THEN ReadOk(0, out)
    ELSE ReadWritten(DeclarationTail(DeclarationHead(data, offset, CursorNew(out)),
                                     data.uuid))

\* AttributeData::read for the Service variant
ServiceRead(data, offset, out) ==
    LET val == data.uuid
        len == Min(Len(out), Len(val) - offset)
    IN  IF offset > Len(val) THEN ReadOk(0, out)
        ELSE ReadOk(len, Overlay(out, 0, SubSeq(val, offset + 1, offset + len)))

\* AttributeData::read
DataRead(data, offset, out, h) ==
    IF ~Readable(data) THEN ReadErr(ReadNotPermitted, out)
    ELSE CASE data.kind \in {"ReadOnlyData", "Data"} -> HandlerRead(h, offset, out)
           [] data.kind = "Service" -> ServiceRead(data, offset, out)
           [] data.kind = "Cccd" -> CccdRead(data, offset, out)
           [] data.kind = "Declaration" -> DeclarationRead(data, offset, out)

\* a faulty AttributeData::write: the Data variant keeps the first byte
\* written as its props
DataWriteIntoProps(data, offset, bytes, h) ==
    CASE data.kind = "Data" /\ bytes # <<>> ->
            [err |-> HandlerWrite(h, offset, bytes), data |-> DataData(bytes[1])]
      [] data.kind = "Cccd" /\ bytes # <<>> ->
            [err |-> 0, data |-> DataCccd(HasBit(bytes[1], 1), HasBit(bytes[1], 2))]
      [] OTHER -> [err |-> WriteNotPermitted, data |-> data]

\* AttributeData::write: the error code (0: Ok) and the data afterwards
DataWrite(data, offset, bytes, h) ==
    CASE data.kind = "Data" ->
            IF ~Writable(data) THEN [err |-> WriteNotPermitted, data |-> data]
            ELSE [err |-> HandlerWrite(h, offset, bytes), data |-> data]
      [] data.kind = "Cccd" ->
            IF offset > 0 THEN [err |-> InvalidOffset, data |-> data]
            ELSE IF bytes = <<>> THEN [err |-> UnlikelyError, data |-> data]
            ELSE [err |-> 0,
                  data |-> DataCccd(HasBit(bytes[1], 1), HasBit(bytes[1], 2))]
      [] OTHER -> [err |-> WriteNotPermitted, data |-> data]

-----------------------------------------------------------------------------
(* AttributeServer: the notification table                                  *)

MAX_NOTIFICATIONS == 4

\* AttributeServer::new: state: [(0, ConnHandle::new(0)); 4]
NotificationTableNew == [i \in 1..MAX_NOTIFICATIONS |-> <<0, 0>>]

\* AttributeServer::should_notify
ShouldNotify(state, conn, cccd_handle) ==
    \E i \in 1..Len(state) : state[i][1] = cccd_handle /\ state[i][2] = conn

\* the first index of a set of indices (where the loop returns), 0 when empty
FirstIndex(S) == IF S = {} THEN 0 ELSE CHOOSE i \in S : \A j \in S : i <= j

\* a faulty set_notify enable branch: the entry's connection is not stored
SetNotifyEnableNoConn(state, conn, cccd_handle) ==
    LET i == FirstIndex({k \in 1..Len(state) : state[k][1] = 0})
    IN  IF i = 0 THEN state ELSE [state EXCEPT ![i] = <<cccd_handle, 0>>]

\* set_notify, enable branch: the first entry with entry.0 == 0 is taken
SetNotifyEnable(state, conn, cccd_handle) ==
    LET i == FirstIndex({k \in 1..Len(state) : state[k][1] = 0})
    IN  IF i = 0 THEN state ELSE [state EXCEPT ![i] = <<cccd_handle, conn>>]

\* a faulty set_notify disable branch: the entry is matched by its handle alone
SetNotifyDisableAnyConn(state, conn, cccd_handle) ==
    LET i == FirstIndex({k \in 1..Len(state) : state[k][1] = cccd_handle})
    IN  IF i = 0 THEN state ELSE [state EXCEPT ![i] = <<0, 0>>]

\* set_notify, disable branch: the first matching entry is zeroed
SetNotifyDisable(state, conn, cccd_handle) ==
    LET i == FirstIndex({k \in 1..Len(state) :
                            state[k][1] = cccd_handle /\ state[k][2] = conn})
    IN  IF i = 0 THEN state ELSE [state EXCEPT ![i] = <<0, 0>>]

\* AttributeServer::set_notify
SetNotify(state, conn, cccd_handle, enable) ==
    IF enable THEN SetNotifyEnable(state, conn, cccd_handle)
    ELSE SetNotifyDisable(state, conn, cccd_handle)

-----------------------------------------------------------------------------
(* AttributeServer: the request handlers.  A handler gets the table, the    *)
(* response buffer rx with its previous contents and the user's handler h, *)
(* and yields rsp (Ok with the response bytes, a codec::Error or a panic), *)
(* the table and the notification table afterwards.                        *)

RspOk(bytes) == [kind |-> "ok", bytes |-> bytes]
RspCodecError == [kind |-> "err", bytes |-> <<>>]
RspPanic == [kind |-> "panic", bytes |-> <<>>]

Handled(rsp, attrs, notif) == [rsp |-> rsp, attrs |-> attrs, notif |-> notif]

\* the attribute the `while let Some(att) = it.next()` loop stops at: the
\* first one with this handle (0: none)
FindByHandle(attrs, hdl) == FirstIndex({k \in 1..Len(attrs) : attrs[k].handle = hdl})

\* a faulty scan of handle_read_by_type_req: it stops at the last match
FindByTypeLast(attrs, start, end, type) ==
    LET S == {k \in 1..Len(attrs) :
                /\ attrs[k].uuid = type
                /\ attrs[k].handle >= start
                /\ attrs[k].handle <= end}
    IN  IF S = {} THEN 0 ELSE CHOOSE i \in S : \A j \in S : j <= i

\* the first attribute of a type with its handle in [start, end] (0: none)
FindByType(attrs, start, end, type) ==
    FirstIndex({k \in 1..Len(attrs) :
                  /\ attrs[k].uuid = type
                  /\ attrs[k].handle >= start
                  /\ attrs[k].handle <= end})

\* a faulty error_response: the error code is not written
ErrorResponseNoCode(rx, opcode, hdl, code) ==
    LET w == CursorAppend(CursorAppend(CursorAppend(
                 CursorReset(CursorNew(rx)),
                 <<ATT_ERROR_RSP>>), <<opcode>>), u16_le(hdl))
    IN  IF w.ok THEN RspOk(CursorBytes(w)) ELSE RspCodecError

\* AttributeServer::error_response on the cursor over all of rx
ErrorResponse(rx, opcode, hdl, code) ==
    LET w == CursorAppend(CursorAppend(CursorAppend(CursorAppend(
                 CursorReset(CursorNew(rx)),
                 <<ATT_ERROR_RSP>>), <<opcode>>), u16_le(hdl)), <<code>>)
    IN  IF w.ok THEN RspOk(CursorBytes(w)) ELSE RspCodecError

\* att.data.read(offset, w.write_buf(), ..) of a request handler
ReadValue(data, offset, w, h) == DataRead(data, offset, CursorWriteBuf(w), h)

\* the cursor after the read filled its slice and commit(len)
ReadCommitted(w, rd) == CursorCommit(CursorFilled(w, rd.out), rd.len)

\* what the async block of a read handler ends with for the attribute it
\* stops at (0: Ok): w is the cursor after what was written ahead of the
\* value, rd the read of the value behind it
ReadBlock(found, w, data, rd) ==
    IF ~found THEN AttributeNotFound
    ELSE IF ~w.ok THEN CodecErrorCode
    ELSE IF ~Readable(data) THEN AttributeNotFound
    ELSE IF rd.err # 0 THEN rd.err
    ELSE IF ~ReadCommitted(w, rd).ok THEN CodecErrorCode
    ELSE 0

\* the match on the block's result: the response, or the error response
ReadRespond(rx, req_opcode, hdl, err, rsp) ==
    IF err = PanicCode THEN RspPanic
    ELSE IF err = 0 THEN RspOk(rsp)
    ELSE ErrorResponse(rx, req_opcode, hdl, err)

\* AttributeServer::handle_read_by_type_req
HandleReadByTypeReq(attrs, rx, start, end, attribute_type, h) ==
    LET Found(i) ==
            LET Written(body) ==
                    LET Done(rd) ==
                            ReadRespond(rx, ATT_READ_BY_TYPE_REQ,
                                IF i = 0 \/ ~body.ok THEN start ELSE attrs[i].handle,
                                ReadBlock(i # 0, body, attrs[i].data, rd),
                                <<ATT_READ_BY_TYPE_RSP, 2 + rd.len>>
                                    \o CursorBytes(ReadCommitted(body, rd)))
                    IN  Done(ReadValue(attrs[i].data, 0, body, h))
            IN  Written(CursorAppend(CursorNew(Drop(rx, 2)), u16_le(attrs[i].handle)))
    IN  IF Len(rx) < 2 THEN RspCodecError
        ELSE Found(FindByType(attrs, start, end, attribute_type))

\* AttributeServer::handle_read_by_group_type_req
HandleReadByGroupTypeReq(attrs, rx, start, end, group_type, h) ==
    LET Found(i) ==
            LET Written(body) ==
                    LET Done(rd) ==
                            ReadRespond(rx, ATT_READ_BY_GROUP_TYPE_REQ,
                                IF i = 0 THEN start ELSE attrs[i].handle,
                                ReadBlock(i # 0, body, attrs[i].data, rd),
                                <<ATT_READ_BY_GROUP_TYPE_RSP, 4 + rd.len>>
                                    \o CursorBytes(ReadCommitted(body, rd)))
                    IN  Done(ReadValue(attrs[i].data, 0, body, h))
            IN  Written(CursorAppend(CursorAppend(CursorNew(Drop(rx, 2)),
                                                  u16_le(attrs[i].handle)),
                                     u16_le(attrs[i].last_handle_in_group)))
    IN  IF Len(rx) < 2 THEN RspCodecError
        ELSE Found(FindByType(attrs, start, end, group_type))

\* handle_read_req and handle_read_blob: opcode, then the value from offset
ReadInto(attrs, rx, rsp_opcode, req_opcode, hdl, offset, h) ==
    LET Found(i, w) ==
            LET Done(rd) ==
                    ReadRespond(rx, req_opcode, hdl,
                                ReadBlock(i # 0, w, attrs[i].data, rd),
                                CursorBytes(ReadCommitted(w, rd)))
            IN  Done(ReadValue(attrs[i].data, offset, w, h))
    IN  IF Len(rx) < 1 THEN RspCodecError
        ELSE Found(FindByHandle(attrs, hdl), CursorAppend(CursorNew(rx), <<rsp_opcode>>))

\* AttributeServer::handle_read_req
HandleReadReq(attrs, rx, hdl, h) ==
    ReadInto(attrs, rx, ATT_READ_RSP, ATT_READ_REQ, hdl, 0, h)

\* AttributeServer::handle_read_blob
HandleReadBlob(attrs, rx, hdl, offset, h) ==
    ReadInto(attrs, rx, ATT_READ_BLOB_RSP, ATT_READ_BLOB_REQ, hdl, offset, h)

\* the write of handle_write_cmd / handle_write_req / handle_prepare_write:
\* the attribute with this handle is written if it is writable; err stays
\* AttributeNotFound when there is no such attribute or it is not writable
WriteAttribute(attrs, hdl, offset, bytes, h) ==
    LET Found(i) ==
            LET Done(wr) ==
                    [err |-> wr.err, attrs |-> [attrs EXCEPT ![i].data = wr.data],
                     found |-> TRUE, written |-> TRUE, i |-> i]
            IN  IF i = 0
                THEN [err |-> AttributeNotFound, attrs |-> attrs, found |-> FALSE,
                      written |-> FALSE, i |-> i]
                ELSE IF ~Writable(attrs[i].data)
                THEN [err |-> AttributeNotFound, attrs |-> attrs, found |-> TRUE,
                      written |-> FALSE, i |-> i]
                ELSE Done(DataWrite(attrs[i].data, offset, bytes, h))
    IN  Found(FindByHandle(attrs, hdl))

\* AttributeServer::handle_write_cmd: the write result is unwrapped
HandleWriteCmd(attrs, notif, hdl, bytes, h) ==
    LET Done(wr) ==
            IF wr.written /\ wr.err # 0 THEN Handled(RspPanic, attrs, notif)
            ELSE Handled(RspOk(<<>>), wr.attrs, notif)
    IN  Done(WriteAttribute(attrs, hdl, 0, bytes, h))

\* a faulty handle_write_req: set_notify is fed the indications flag
NotifyFromIndications(notif, conn, hdl, wr) ==
    IF wr.err = 0 /\ wr.attrs[wr.i].data.kind = "Cccd"
    THEN SetNotify(notif, conn, hdl, wr.attrs[wr.i].data.indications)
    ELSE notif

\* a faulty handle_write_req: set_notify after any successful write
NotifyAfterAnyWrite(notif, conn, hdl, wr) ==
    IF wr.err = 0 THEN SetNotify(notif, conn, hdl, TRUE) ELSE notif

\* handle_write_req: set_notify after a successful write of a Cccd
NotifyAfterWrite(notif, conn, hdl, wr) ==
    IF wr.err = 0 /\ wr.attrs[wr.i].data.kind = "Cccd"
    THEN SetNotify(notif, conn, hdl, wr.attrs[wr.i].data.notifications)
    ELSE notif

\* AttributeServer::handle_write_req
HandleWriteReq(attrs, notif, conn, rx, hdl, bytes, h) ==
    LET Done(wr) ==
            IF wr.err = 0
            THEN Handled(IF Len(rx) >= 1 THEN RspOk(<<ATT_WRITE_RSP>>) ELSE RspCodecError,
                         wr.attrs, NotifyAfterWrite(notif, conn, hdl, wr))
            ELSE Handled(ErrorResponse(rx, ATT_WRITE_REQ, hdl, wr.err), wr.attrs, notif)
    IN  Done(WriteAttribute(attrs, hdl, 0, bytes, h))

\* the loop of handle_find_type_value from attribute k on
RECURSIVE FindTypeValueLoop(_, _, _, _, _, _, _)
FindTypeValueLoop(attrs, k, w, start, end, attr_type, attr_value) ==
    IF k > Len(attrs) THEN w
    ELSE LET att == attrs[k]
             hit == /\ att.handle >= start /\ att.handle <= end
                    /\ att.uuid = attr_type
                    /\ att.data.kind = "Service"
                    /\ att.data.uuid = attr_value
         IN  IF ~hit
             THEN FindTypeValueLoop(attrs, k + 1, w, start, end, attr_type, attr_value)
             ELSE IF CursorAvailable(w) < 4 + Len(att.data.uuid) THEN w
             ELSE FindTypeValueLoop(attrs, k + 1,
                     CursorAppend(CursorAppend(CursorAppend(w,
                         u16_le(att.handle)),
                         u16_le(att.last_handle_in_group)),
                         att.data.uuid),
                     start, end, attr_type, attr_value)

\* AttributeServer::handle_find_type_value
HandleFindTypeValue(attrs, rx, start, end, attr_type, attr_value) ==
    LET Done(w) ==
            IF ~w.ok THEN RspCodecError
            ELSE IF w.pos > 1 THEN RspOk(CursorBytes(w))
            ELSE ErrorResponse(rx, ATT_FIND_BY_TYPE_VALUE_REQ, start, AttributeNotFound)
    IN  IF Len(rx) < 1 THEN RspCodecError
        ELSE Done(FindTypeValueLoop(attrs, 1,
                      CursorAppend(CursorNew(rx), <<ATT_FIND_BY_TYPE_VALUE_RSP>>),
                      start, end, attr_type, attr_value))

\* one write of the handle_find_information loop: handle, then the raw uuid
FindInformationEntry(body, att) ==
    CursorAppend(CursorAppend(body, u16_le(att.handle)), att.uuid)

\* the loop of handle_find_information from attribute k on: st = [body, t]
RECURSIVE FindInformationLoop(_, _, _, _, _)
FindInformationLoop(attrs, k, st, start, end) ==
    IF k > Len(attrs) \/ ~st.body.ok THEN st
    ELSE LET att == attrs[k]
         IN  IF ~(att.handle >= start /\ att.handle <= end)
             THEN FindInformationLoop(attrs, k + 1, st, start, end)
             ELSE IF st.t # 0 /\ st.t # UuidType(att.uuid) THEN st
             ELSE FindInformationLoop(attrs, k + 1,
                     [body |-> FindInformationEntry(st.body, att),
                      t |-> UuidType(att.uuid)],
                     start, end)

\* AttributeServer::handle_find_information
HandleFindInformation(attrs, rx, start, end) ==
    LET Done(st) ==
            IF ~st.body.ok THEN RspCodecError
            ELSE IF st.body.pos > 2
            THEN RspOk(<<ATT_FIND_INFORMATION_RSP, st.t>> \o CursorBytes(st.body))
            ELSE ErrorResponse(rx, ATT_FIND_INFORMATION_REQ, start, AttributeNotFound)
    IN  IF Len(rx) < 2 THEN RspCodecError
        ELSE Done(FindInformationLoop(attrs, 1,
                      [body |-> CursorNew(Drop(rx, 2)), t |-> 0], start, end))

\* a faulty handle_prepare_write: the value is echoed and not written
HandlePrepareWriteQueued(attrs, notif, rx, hdl, offset, value, h) ==
    LET w == CursorAppend(CursorAppend(CursorAppend(CursorAppend(CursorNew(rx),
                 <<ATT_PREPARE_WRITE_RSP>>), u16_le(hdl)), u16_le(offset)), value)
    IN  IF FindByHandle(attrs, hdl) = 0
        THEN Handled(ErrorResponse(rx, ATT_PREPARE_WRITE_REQ, hdl, AttributeNotFound),
                     attrs, notif)
        ELSE Handled(IF w.ok THEN RspOk(CursorBytes(w)) ELSE RspCodecError, attrs, notif)

\* AttributeServer::handle_prepare_write
HandlePrepareWrite(attrs, notif, rx, hdl, offset, value, h) ==
    LET Written(w0, wr) ==
            LET Echoed(w1) ==
                    LET Result(err) ==
                            IF err = 0 THEN Handled(RspOk(CursorBytes(w1)), wr.attrs, notif)
                            ELSE Handled(ErrorResponse(rx, ATT_PREPARE_WRITE_REQ, hdl, err),
                                         wr.attrs, notif)
                    IN  Result(IF wr.found /\ ~w1.ok THEN CodecErrorCode ELSE wr.err)
            IN  IF ~w0.ok THEN Handled(RspCodecError, attrs, notif)
                ELSE Echoed(IF wr.found THEN CursorAppend(w0, value) ELSE w0)
    IN  Written(CursorAppend(CursorAppend(CursorAppend(CursorNew(rx),
                    <<ATT_PREPARE_WRITE_RSP>>), u16_le(hdl)), u16_le(offset)),
                WriteAttribute(attrs, hdl, offset, value, h))

\* AttributeServer::handle_execute_write
HandleExecuteWrite(rx, flags) ==
    LET w == CursorAppend(CursorNew(rx), <<ATT_EXECUTE_WRITE_RSP>>)
    IN  IF w.ok THEN RspOk(CursorBytes(w)) ELSE RspCodecError

\* AttributeServer::handle_read_multiple
HandleReadMultiple(rx, handles) ==
    ErrorResponse(rx, ATT_READ_MULTIPLE_REQ, handles[1] + 256 * handles[2],
                  AttributeNotFound)

\* the match of AttributeServer::process over the request variants
Dispatch(attrs, notif, conn, req, rx, h) ==
    CASE req.op = "ReadByType" ->
            Handled(HandleReadByTypeReq(attrs, rx, req.start, req.end, req.type, h),
                    attrs, notif)
      [] req.op = "ReadByGroupType" ->
            Handled(HandleReadByGroupTypeReq(attrs, rx, req.start, req.end, req.type, h),
                    attrs, notif)
      [] req.op = "FindInformation" ->
            Handled(HandleFindInformation(attrs, rx, req.start, req.end), attrs, notif)
      [] req.op = "Read" ->
            Handled(HandleReadReq(attrs, rx, req.handle, h), attrs, notif)
      [] req.op = "WriteCmd" ->
            HandleWriteCmd(attrs, notif, req.handle, req.data, h)
      [] req.op = "Write" ->
            HandleWriteReq(attrs, notif, conn, rx, req.handle, req.data, h)
      [] req.op = "ExchangeMtu" ->
            Handled(RspOk(<<>>), attrs, notif)
      [] req.op = "FindByTypeValue" ->
            Handled(HandleFindTypeValue(attrs, rx, req.start, req.end,
                                        u16_le(req.att_type), req.data),
                    attrs, notif)
      [] req.op = "PrepareWrite" ->
            HandlePrepareWrite(attrs, notif, rx, req.handle, req.offset, req.data, h)
      [] req.op = "ExecuteWrite" ->
            Handled(HandleExecuteWrite(rx, req.flags), attrs, notif)
      [] req.op = "ReadBlob" ->
            Handled(HandleReadBlob(attrs, rx, req.handle, req.offset, h), attrs, notif)
      [] req.op = "ReadMultiple" ->
            Handled(HandleReadMultiple(rx, req.data), attrs, notif)

\* the end of AttributeServer::process: Ok(Some(len)) with the response in
\* rx[..len] ("pdu"), Ok(None) ("none"), Err(codec::Error) ("error"), or a panic
Outcome(rsp) ==
    IF rsp.kind = "ok"
    THEN (IF Len(rsp.bytes) > 0 THEN [kind |-> "pdu", bytes |-> rsp.bytes]
          ELSE [kind |-> "none", bytes |-> <<>>])
    ELSE IF rsp.kind = "err" THEN [kind |-> "error", bytes |-> <<>>]
    ELSE [kind |-> "panic", bytes |-> <<>>]

\* AttributeServer::process
Process(attrs, notif, conn, req, rx, h) ==
    LET Done(d) == [out |-> Outcome(d.rsp), attrs |-> d.attrs, notif |-> d.notif]
    IN  Done(Dispatch(attrs, notif, conn, req, rx, h))

-----------------------------------------------------------------------------
(* The requests and GattServer::process                                     *)

\* AttReq: one record shape for all variants.  start/end are the handle range
\* (start_handle/end_handle), type the attribute_type/group_type, data the
\* data/att_value/value/handles of the variant
AttReq(op) == [op |-> op, start |-> 0, end |-> 0, type |-> <<>>, att_type |-> 0,
               handle |-> 0, offset |-> 0, data |-> <<>>, flags |-> 0]

ReadByType(start, end, type) ==
    [AttReq("ReadByType") EXCEPT !.start = start, !.end = end, !.type = type]
ReadByGroupType(start, end, type) ==
    [AttReq("ReadByGroupType") EXCEPT !.start = start, !.end = end, !.type = type]
FindInformation(start, end) ==
    [AttReq("FindInformation") EXCEPT !.start = start, !.end = end]
Read(hdl) == [AttReq("Read") EXCEPT !.handle = hdl]
WriteCmd(hdl, data) == [AttReq("WriteCmd") EXCEPT !.handle = hdl, !.data = data]
Write(hdl, data) == [AttReq("Write") EXCEPT !.handle = hdl, !.data = data]
ExchangeMtu == AttReq("ExchangeMtu")
FindByTypeValue(start, end, att_type, att_value) ==
    [AttReq("FindByTypeValue") EXCEPT !.start = start, !.end = end,
                                      !.att_type = att_type, !.data = att_value]
PrepareWrite(hdl, offset, value) ==
    [AttReq("PrepareWrite") EXCEPT !.handle = hdl, !.offset = offset, !.data = value]
ExecuteWrite(flags) == [AttReq("ExecuteWrite") EXCEPT !.flags = flags]
ReadBlob(hdl, offset) == [AttReq("ReadBlob") EXCEPT !.handle = hdl, !.offset = offset]
ReadMultiple(handles) == [AttReq("ReadMultiple") EXCEPT !.data = handles]

\* handles of SampleTable by kind of attribute, and one (7) that is not there:
\* 1 Service, 2 Declaration, 3 Data write|notify, 4 and 19 Cccd,
\* 6 ReadOnlyData, 18 Data read|notify, 21 Data read|write
Handles == {1, 2, 3, 4, 6, 7, 18, 19, 21}
CccdWritten == {4, 19}

\* handle ranges: everything, inside the first service, between the services,
\* the second service
Everything == <<1, 65535>>
Ranges == {Everything, <<1, 5>>, <<7, 15>>, <<16, 65535>>}

\* written values: a value byte (bit 1 set, bit 0 clear); for a CCCD also
\* notifications on, everything off, and no byte at all
Value == <<170>>
CccdValues == {<<1, 0>>, <<0, 0>>, <<>>}

Requests ==
    {ReadByType(r[1], r[2], t) :
        r \in Ranges, t \in {CHARACTERISTIC_UUID16, BATTERY_LEVEL_UUID16}}
    \cup {ReadByType(Everything[1], Everything[2], t) :
             t \in {CHARACTERISTIC_CCCD_UUID16, CUSTOM_UUID128}}
    \cup {ReadByGroupType(r[1], r[2], PRIMARY_SERVICE_UUID16) : r \in Ranges}
    \cup {FindInformation(r[1], r[2]) : r \in Ranges}
    \cup {FindInformation(21, 65535)}
    \cup {Read(hdl) : hdl \in Handles}
    \cup {WriteCmd(hdl, Value) : hdl \in {3, 4, 6, 7, 21}}
    \cup {WriteCmd(4, d) : d \in {<<1, 0>>, <<>>}}
    \cup {Write(hdl, Value) : hdl \in Handles}
    \cup {Write(hdl, d) : hdl \in CccdWritten, d \in CccdValues}
    \cup {ExchangeMtu}
    \cup {FindByTypeValue(r[1], r[2], 10240, BATTERY_SERVICE_UUID16) : r \in Ranges}
    \cup {FindByTypeValue(Everything[1], Everything[2], 10240, CUSTOM_UUID128)}
    \cup {PrepareWrite(hdl, 0, Value) : hdl \in {3, 4, 6, 7}}
    \cup {PrepareWrite(21, 1, Value)}
    \cup {ExecuteWrite(flags) : flags \in {0, 1}}
    \cup {ReadBlob(hdl, o) : hdl \in {2, 6, 7}, o \in {1, 3}}
    \cup {ReadBlob(hdl, 1) : hdl \in {1, 4}}
    \cup {ReadBlob(2, 4)}
    \cup {ReadMultiple(<<3, 0, 6, 0>>)}

\* the user's handlers: one that serves a two-byte value and accepts writes,
\* one that refuses both
Handlers ==
    {[rd_err |-> 0, value |-> <<7, 8>>, wr_err |-> 0, bridged |-> FALSE],
     [rd_err |-> InsufficientAuthentication, value |-> <<>>,
      wr_err |-> InsufficientAuthentication, bridged |-> FALSE]}

\* the handler GattRunner::run hands to process: the exchange area
Bridge(buf) == [rd_err |-> 0, value |-> buf, wr_err |-> 0, bridged |-> TRUE]

\* the ATT MTU of a connection: the default GattServer::new sets, or the
\* smaller one a peer exchanged with the host
AttMtu == L2CAP_MTU - 4
ExchangedMtu == AttMtu - 3

\* get_att_mtu: connection 0 holds the default, the others exchanged theirs
GetAttMtu(conn) == IF conn = 0 THEN AttMtu ELSE ExchangedMtu

\* the frame GattServer::process sends to a connection for a response of
\* `written` bytes: written and channel 4, then the response cut to the ATT
\* MTU of the connection
L2capFrame(conn, bytes) ==
    u16_le(Len(bytes)) \o u16_le(4) \o Take(bytes, Min(Len(bytes), GetAttMtu(conn)))

\* one round of the loop of GattServer::process on a decoded request of a
\* connected peer, with the response written to tx[4..] of tx = [0; L2CAP_MTU]:
\* out is the frame sent ("pdu"), or nothing sent because process returned
\* Ok(None) ("none") or Err ("error"), or a panic
GattProcess(attrs, notif, conn, req, h) ==
    LET Done(p) ==
            IF p.out.kind = "pdu"
            THEN [p EXCEPT !.out.bytes = L2capFrame(conn, p.out.bytes)]
            ELSE p
    IN  Done(Process(attrs, notif, conn, req, [i \in 1..(L2CAP_MTU - 4) |-> 0], h))

\* GattServer::notify past the should_notify gate: the notification is built
\* in tx = [0; L2CAP_MTU] behind the 4 bytes of the L2CAP header and handed
\* to the ACL sender of the connection ("pdu"), or a write that does not fit
\* leaves with an error and nothing is handed over ("error")
NotifyPdu(char, value) ==
    LET Sent(data) ==
            IF data.ok
            THEN [kind |-> "pdu",
                  bytes |-> u16_le(data.pos) \o u16_le(4) \o CursorBytes(data)]
            ELSE [kind |-> "error", bytes |-> <<>>]
    IN  Sent(CursorAppend(
                CursorAppend(
                    CursorAppend(CursorNew([i \in 1..(L2CAP_MTU - 4) |-> 0]),
                                 <<ATT_HANDLE_VALUE_NTF>>),
                    u16_le(char.handle)),
                value))

\* a faulty GattServer::notify: should_notify is not asked
NotifyUngated(notif, conn, char, value) ==
    IF char.cccd_handle = 0
    THEN [kind |-> "error", bytes |-> <<>>]
    ELSE NotifyPdu(char, value)

\* GattServer::notify; cccd_handle 0 stands for None, "none" for Ok(()) with
\* nothing sent
Notify(notif, conn, char, value) ==
    IF char.cccd_handle = 0
    THEN [kind |-> "error", bytes |-> <<>>]
    ELSE IF ~ShouldNotify(notif, conn, char.cccd_handle)
    THEN [kind |-> "none", bytes |-> <<>>]
    ELSE NotifyPdu(char, value)

\* the server before any request, and the exchange area of GattServer::new
NoPdu == [conn |-> 0, req |-> AttReq("None"), h |-> Bridge(<<>>)]
Idle == [kind |-> "idle", bytes |-> <<>>]
NoRequest == [kind |-> "None", handle |-> 0, offset |-> 0]
NotNotified ==
    [made |-> FALSE, conn |-> 0, char |-> [handle |-> 0, cccd_handle |-> 0],
     value |-> <<>>, subscribed |-> FALSE, out |-> Idle]
ExchangeAreaNew == [request |-> NoRequest, response |-> FALSE, buf |-> <<>>]
RunnerNew == [pc |-> "receive", conn |-> 0, req |-> AttReq("None"), resumed |-> "None"]
ForegroundNew == [pc |-> "next", handle |-> 0, offset |-> 0, fetched |-> FALSE]

\* GattClient::new: no known services, no call in progress, nothing received;
\* arrived are the PDUs the host has put into att_inbound so far, of which the
\* receive task has taken the first `taken`; published are the notifications
\* handed to the pub-sub and returned the PDUs request() has returned
NoResult == [kind |-> "none", err |-> "", code |-> 0]
NoCharacteristic == [handle |-> 0, cccd_handle |-> 0]
ClientNew ==
    [pc |-> "idle", uuid |-> <<>>, start |-> 0, end |-> 0, result |-> <<>>,
     known_services |-> <<>>, found |-> NoCharacteristic, ret |-> NoResult,
     calls |-> 0, arrived |-> <<>>, taken |-> 0, task |-> "running",
     response_channel |-> <<>>, published |-> <<>>, outstanding |-> FALSE,
     returned |-> <<>>]

InitServer ==
    /\ client = ClientNew
    /\ att_in = NoPdu
    /\ att_out = Idle
    /\ att_count = 0
    /\ notified = NotNotified
    /\ exchange_area = ExchangeAreaNew
    /\ runner = RunnerNew
    /\ foreground = ForegroundNew
    /\ table_locked = FALSE

\* last_call before any set_notify call
NoCall == [made |-> FALSE, conn |-> 0, handle |-> 0, enable |-> FALSE,
           was_set |-> FALSE, had_room |-> FALSE]

-----------------------------------------------------------------------------
(* Table construction as a state machine (specification SpecTable)          *)

TableState == [attributes |-> attributes, handle |-> table_handle]

SetTable(t) ==
    /\ attributes' = t.attributes
    /\ table_handle' = t.handle

NoBuilder == [active |-> FALSE, start |-> 0, handle |-> 0]

\* the (uuid, props) pairs handed to add_service / add_characteristic
ServiceUuids == {BATTERY_SERVICE_UUID16}
CharChoices == {<<BATTERY_LEVEL_UUID16, PROP_READ + PROP_NOTIFY>>,
                <<CUSTOM_UUID128, PROP_WRITE>>,
                <<CUSTOM_UUID128, PROP_WRITE + PROP_INDICATE>>}

InitTable ==
    /\ attributes = TableNew.attributes
    /\ table_handle = TableNew.handle
    /\ service_builder = NoBuilder
    /\ char_builder = -1
    /\ sealed = <<>>
    /\ built = <<>>
    /\ notification = NotificationTableNew
    /\ connected = {}
    /\ last_call = NoCall
    /\ InitServer

\* AttributeTable::add_service: pushes the declaration, returns the ServiceBuilder
add_service ==
    /\ ~service_builder.active
    /\ Len(attributes) < MAX
    /\ \E uuid \in ServiceUuids : SetTable(TableAddService(TableState, uuid))
    /\ service_builder' = [active |-> TRUE, start |-> Len(attributes),
                           handle |-> table_handle]
    /\ char_builder' = -1
    /\ UNCHANGED <<sealed, built, notifVars, attVars, splitVars, client>>

\* ServiceBuilder::add_characteristic
add_characteristic ==
    /\ service_builder.active
    /\ \E c \in CharChoices :
          /\ Len(attributes) + CharacteristicSize(c[2]) <= MAX
          /\ SetTable(TableAddCharacteristic(TableState, c[1], c[2], DataData(c[2])))
          /\ built' = Append(built, BuiltCharacteristic(TableState, c[2]))
    /\ char_builder' = 0
    /\ UNCHANGED <<service_builder, sealed, notifVars, attVars, splitVars, client>>

\* ServiceBuilder::add_characteristic_ro
add_characteristic_ro ==
    /\ service_builder.active
    /\ Len(attributes) + 2 <= MAX
    /\ SetTable(TableAddCharacteristic(TableState, DEVICE_NAME_UUID16, PROP_READ,
                                       DataReadOnly(PROP_READ)))
    /\ built' = Append(built, BuiltCharacteristic(TableState, PROP_READ))
    /\ char_builder' = 0
    /\ UNCHANGED <<service_builder, sealed, notifVars, attVars, splitVars, client>>

\* CharacteristicBuilder::add_descriptor
add_descriptor ==
    /\ service_builder.active
    /\ char_builder >= 0
    /\ char_builder < MaxDescriptors
    /\ Len(attributes) < MAX
    /\ SetTable(TableAddDescriptor(TableState, DEVICE_NAME_UUID16, DataData(PROP_READ)))
    /\ char_builder' = char_builder + 1
    /\ UNCHANGED <<service_builder, sealed, built, notifVars, attVars, splitVars, client>>

\* ServiceBuilder::build / Drop for ServiceBuilder
drop_service_builder ==
    /\ service_builder.active
    /\ SetTable(TableDrop(TableState, service_builder.start))
    /\ sealed' = Append(sealed, [start |-> service_builder.start,
                                 len |-> Len(attributes)])
    /\ service_builder' = NoBuilder
    /\ char_builder' = -1
    /\ UNCHANGED <<built, notifVars, attVars, splitVars, client>>

NextTable ==
    \/ add_service
    \/ add_characteristic
    \/ add_characteristic_ro
    \/ add_descriptor
    \/ drop_service_builder

SpecTable == InitTable /\ [][NextTable]_vars

-----------------------------------------------------------------------------
(* Properties of the table construction                                     *)

\* the attributes of the k-th completed ServiceBuilder session
SessionMembers(k) == (sealed[k].start + 1)..sealed[k].len

\* C5: after a ServiceBuilder completes, every attribute pushed during that
\* session, the service declaration included, has last_handle_in_group equal
\* to the handle of the last attribute pushed in the session.
C5_GroupEndsAtLastPushed ==
    \A k \in 1..Len(sealed) : \A i \in SessionMembers(k) :
        attributes[i].last_handle_in_group = attributes[sealed[k].len].handle

\* C6: a service declaration that follows a sealed service has a handle
\* strictly greater than that service's last_handle_in_group, so the ranges
\* [handle, last_handle_in_group] of distinct services are disjoint.
C6_NextServiceAboveGroupEnd ==
    \A k \in 1..Len(sealed) : \A j \in 1..Len(attributes) :
        (j > sealed[k].len /\ attributes[j].data.kind = "Service")
            => attributes[j].handle
                 > attributes[sealed[k].start + 1].last_handle_in_group

-----------------------------------------------------------------------------
(* The notification table under CCCD writes and connection changes          *)
(* (specification SpecNotify)                                               *)

InitNotify ==
    /\ attributes = SampleTable.attributes
    /\ table_handle = SampleTable.handle
    /\ service_builder = NoBuilder
    /\ char_builder = -1
    /\ sealed = <<>>
    /\ built = SampleBuilt
    /\ notification = NotificationTableNew
    /\ connected = {}
    /\ last_call = NoCall
    /\ InitServer

\* a peer connects (connection manager)
connect ==
    /\ \E conn \in Conns \ connected : connected' = connected \cup {conn}
    /\ UNCHANGED <<tableVars, notification, last_call, attVars, splitVars, client>>

\* a peer disconnects (connection manager); nothing in the server reacts to it
disconnect ==
    /\ \E conn \in connected : connected' = connected \ {conn}
    /\ UNCHANGED <<tableVars, notification, last_call, attVars, splitVars, client>>

\* handle_write_req on a CCCD by a connected peer: set_notify(conn, handle, bit 0)
cccd_write ==
    /\ \E conn \in connected, cccd_handle \in CccdHandles, enable \in BOOLEAN :
          /\ notification' = SetNotify(notification, conn, cccd_handle, enable)
          /\ last_call' =
                [made |-> TRUE, conn |-> conn, handle |-> cccd_handle,
                 enable |-> enable,
                 was_set |-> ShouldNotify(notification, conn, cccd_handle),
                 had_room |-> \/ ShouldNotify(notification, conn, cccd_handle)
                              \/ \E i \in 1..Len(notification) :
                                    notification[i][1] = 0]
    /\ UNCHANGED <<tableVars, connected, attVars, splitVars, client>>

NextNotify ==
    \/ connect
    \/ disconnect
    \/ cccd_write

SpecNotify == InitNotify /\ [][NextNotify]_vars

-----------------------------------------------------------------------------
(* Properties of the notification table                                     *)

\* the registry answers for the pair of the latest set_notify call
LastCallNotifies == ShouldNotify(notification, last_call.conn, last_call.handle)

\* C7: once notifications for (C, handle) have been disabled,
\* should_notify(C, handle) is false, however often they were enabled before.
C7_DisabledThenNotNotified ==
    (last_call.made /\ ~last_call.enable) => ~LastCallNotifies

\* C8 as claimed: after an enable for (C, handle), should_notify(C, handle)
\* is true whatever calls preceded it.
C8_EnabledThenNotifiedAlways ==
    (last_call.made /\ last_call.enable) => LastCallNotifies

\* C8 amended: after an enable for (C, handle) made while the table had a
\* free entry or already held (C, handle), should_notify(C, handle) is true.
C8_EnabledWithRoomThenNotified ==
    (last_call.made /\ last_call.enable /\ last_call.had_room) => LastCallNotifies

\* C8 witness: an enable of a pair that was not registered found room,
\* with another pair registered
C8_Witness ==
    /\ last_call.made /\ last_call.enable /\ last_call.had_room
    /\ ~last_call.was_set
    /\ LastCallNotifies
    /\ \E c \in Conns, h \in CccdHandles :
          <<c, h>> # <<last_call.conn, last_call.handle>>
          /\ ShouldNotify(notification, c, h)

\* C9: a disable for (C1, handle) leaves should_notify(C2, h) as it was for
\* every other pair of a connection and a CCCD handle.
C9_DisableKeepsOthers ==
    [][ (last_call'.made /\ ~last_call'.enable) =>
          \A c \in Conns, h \in CccdHandles :
             <<c, h>> # <<last_call'.conn, last_call'.handle>> =>
                (ShouldNotify(notification', c, h) = ShouldNotify(notification, c, h))
      ]_vars

\* C9 witness: a disable removed the pair's entry while another pair stays
C9_Witness ==
    /\ last_call.made /\ ~last_call.enable /\ last_call.was_set
    /\ \E c \in Conns, h \in CccdHandles :
          <<c, h>> # <<last_call.conn, last_call.handle>>
          /\ ShouldNotify(notification, c, h)

\* C10: a connection that is not connected has no entry in the registry:
\* its entries were cleared when it disconnected.
C10_DisconnectedNotNotified ==
    \A c \in Conns \ connected : \A h \in CccdHandles :
        ~ShouldNotify(notification, c, h)

-----------------------------------------------------------------------------
(* The server loop on the sample table (specification SpecAtt)              *)

InitAtt ==
    /\ attributes = SampleTable.attributes
    /\ table_handle = SampleTable.handle
    /\ service_builder = NoBuilder
    /\ char_builder = -1
    /\ sealed = <<>>
    /\ built = SampleBuilt
    /\ notification = NotificationTableNew
    /\ connected = Conns
    /\ last_call = NoCall
    /\ InitServer

\* GattServer::process, one round of the loop with a user's handler
process ==
    /\ att_count < MaxRequests
    /\ \E conn \in connected, req \in Requests, h \in Handlers :
          \E p \in {GattProcess(attributes, notification, conn, req, h)} :
              /\ att_in' = [conn |-> conn, req |-> req, h |-> h]
              /\ att_out' = p.out
              /\ attributes' = p.attrs
              /\ notification' = p.notif
    /\ att_count' = att_count + 1
    /\ notified' = NotNotified
    /\ UNCHANGED <<table_handle, service_builder, char_builder, sealed, built,
                   connected, last_call, splitVars, client>>

\* the characteristics of the sample table the application notifies: two
\* with a CCCD and one without
NotifyChars ==
    {[handle |-> 3, cccd_handle |-> 4], [handle |-> 18, cccd_handle |-> 19],
     [handle |-> 6, cccd_handle |-> 0]}

\* the values notified: a short one, the longest that fits tx behind the
\* L2CAP header, opcode and handle, and one byte more
NotifyValues == {<<42>>, Fill(L2CAP_MTU - 7), Fill(L2CAP_MTU - 6)}

\* GattServer::notify called by the application on a connected peer
notify ==
    /\ att_count < MaxRequests
    /\ \E conn \in connected, char \in NotifyChars, value \in NotifyValues :
          notified' = [made |-> TRUE, conn |-> conn, char |-> char, value |-> value,
                       subscribed |-> ShouldNotify(notification, conn, char.cccd_handle),
                       out |-> Notify(notification, conn, char, value)]
    /\ att_in' = NoPdu
    /\ att_out' = Idle
    /\ att_count' = att_count + 1
    /\ UNCHANGED <<tableVars, notifVars, splitVars, client>>

NextAtt ==
    \/ process
    \/ notify

SpecAtt == InitAtt /\ [][NextAtt]_vars

-----------------------------------------------------------------------------
(* Properties of the server loop                                            *)

\* the attribute payload of the frame sent (after the L2CAP header)
SentPdu == Drop(att_out.bytes, 4)

\* the request just taken addressed an attribute there is, by its handle
Addressed == FindByHandle(attributes, att_in.req.handle)

\* C1: a Write request to an existing attribute that is not writable
\* (ReadOnlyData, Service, Declaration, Data without a write property) is
\* answered with an ERROR_RSP for the Write opcode carrying the attribute's
\* handle and the code WriteNotPermitted.
C1_WriteToNotWritableIsNotPermitted ==
    (/\ att_in.req.op = "Write"
     /\ Addressed # 0
     /\ ~Writable(attributes[Addressed].data))
    => /\ att_out.kind = "pdu"
       /\ SentPdu = <<ATT_ERROR_RSP, ATT_WRITE_REQ>> \o u16_le(att_in.req.handle)
                       \o <<WriteNotPermitted>>

\* the opcode of the success response to a request
SuccessOpcode(op) ==
    CASE op = "ReadByType" -> ATT_READ_BY_TYPE_RSP
      [] op = "ReadByGroupType" -> ATT_READ_BY_GROUP_TYPE_RSP
      [] op = "FindInformation" -> ATT_FIND_INFORMATION_RSP
      [] op = "Read" -> ATT_READ_RSP
      [] op = "Write" -> ATT_WRITE_RSP
      [] op = "FindByTypeValue" -> ATT_FIND_BY_TYPE_VALUE_RSP
      [] op = "PrepareWrite" -> ATT_PREPARE_WRITE_RSP
      [] op = "ExecuteWrite" -> ATT_EXECUTE_WRITE_RSP
      [] op = "ReadBlob" -> ATT_READ_BLOB_RSP
      [] OTHER -> ATT_ERROR_RSP

\* C2: every request other than WriteCmd and ExchangeMtu is answered with one
\* frame, the request's success response or an ERROR_RSP; the server never
\* sends nothing for it and never ends in an internal error.
C2_EveryRequestIsAnswered ==
    (att_in.req.op \notin {"None", "WriteCmd", "ExchangeMtu"})
    => /\ att_out.kind = "pdu"
       /\ SentPdu[1] \in {SuccessOpcode(att_in.req.op), ATT_ERROR_RSP}

-----------------------------------------------------------------------------
(* Split mode: the dispatcher run by GattRunner::run with the exchange area *)
(* as its handler, and the foreground task polling GattEvents::next        *)
(* (specification SpecSplit)                                                *)

\* the requests of the run: reads and writes of values, of a CCCD, of a
\* read-only value, and a read by type of a value
SplitRequests ==
    {Read(hdl) : hdl \in {4, 6, 18, 21}}
    \cup {Write(hdl, d) : hdl \in {3, 4, 21}, d \in {<<170>>, <<1, 0>>}}
    \cup {ReadByType(16, 65535, BATTERY_LEVEL_UUID16)}

\* what the foreground replies with: a short value, the longest that fits a
\* Read response, one byte more, and more than the exchange buffer holds
ReplyChoices == {Fill(2), Fill(L2CAP_MTU - 5), Fill(L2CAP_MTU - 4), Fill(L2CAP_MTU + 1)}

\* sizes of the buffer the foreground fetches a written value into
FetchSizes == {1, L2CAP_MTU}

\* the call of the handler the request leads to, if any: the attribute the
\* request handler stops at holds user data and passes readable()/writable()
BridgeCall(attrs, req) ==
    LET i == IF req.op = "ReadByType"
             THEN FindByType(attrs, req.start, req.end, req.type)
             ELSE FindByHandle(attrs, req.handle)
        user == i # 0 /\ attrs[i].data.kind \in {"Data", "ReadOnlyData"}
    IN  IF req.op \in {"Read", "ReadByType"} /\ user /\ Readable(attrs[i].data)
        THEN [kind |-> "Read", handle |-> attrs[i].handle, offset |-> 0]
        ELSE IF req.op = "Write" /\ user /\ attrs[i].data.kind = "Data"
                /\ Writable(attrs[i].data)
        THEN [kind |-> "Write", handle |-> attrs[i].handle, offset |-> 0]
        ELSE NoRequest

InitSplit ==
    /\ attributes = SampleTable.attributes
    /\ table_handle = SampleTable.handle
    /\ service_builder = NoBuilder
    /\ char_builder = -1
    /\ sealed = <<>>
    /\ built = SampleBuilt
    /\ notification = NotificationTableNew
    /\ connected = Conns
    /\ last_call = NoCall
    /\ InitServer

Halted == runner.pc = "panicked" \/ foreground.pc = "panicked"

\* the dispatcher takes a request whose handling does not reach the handler:
\* one whole round of the loop of GattServer::process
runner_process ==
    /\ ~Halted
    /\ runner.pc = "receive"
    /\ att_count < MaxRequests
    /\ \E conn \in connected, req \in SplitRequests :
          /\ BridgeCall(attributes, req) = NoRequest
          /\ \E p \in {GattProcess(attributes, notification, conn, req,
                                   Bridge(exchange_area.buf))} :
                 /\ att_in' = [conn |-> conn, req |-> req, h |-> Bridge(exchange_area.buf)]
                 /\ att_out' = p.out
                 /\ attributes' = p.attrs
                 /\ notification' = p.notif
    /\ att_count' = att_count + 1
    /\ runner' = [runner EXCEPT !.resumed = "None"]
    /\ UNCHANGED <<table_handle, service_builder, char_builder, sealed, built, connected,
                   last_call, notified, exchange_area, foreground, table_locked, client>>

\* a faulty dispatcher: the next request is received while the handler call
\* of the one before is still awaited
runner_read_while_waiting ==
    /\ ~Halted
    /\ att_count < MaxRequests
    /\ \E conn \in connected, req \in SplitRequests :
          /\ BridgeCall(attributes, req).kind = "Read"
          /\ exchange_area' = [exchange_area EXCEPT
                                  !.request = BridgeCall(attributes, req)]
          /\ runner' = [pc |-> "read_wait", conn |-> conn, req |-> req,
                        resumed |-> "None"]
    /\ att_count' = att_count + 1
    /\ table_locked' = TRUE
    /\ UNCHANGED <<tableVars, notifVars, att_in, att_out, notified, foreground, client>>

\* the dispatcher takes a request whose handler locks the table and reads the
\* value through the bridge: the request is signalled, the response awaited
runner_read ==
    /\ ~Halted
    /\ runner.pc = "receive"
    /\ att_count < MaxRequests
    /\ \E conn \in connected, req \in SplitRequests :
          /\ BridgeCall(attributes, req).kind = "Read"
          /\ exchange_area' = [exchange_area EXCEPT
                                  !.request = BridgeCall(attributes, req)]
          /\ runner' = [pc |-> "read_wait", conn |-> conn, req |-> req,
                        resumed |-> "None"]
    /\ att_count' = att_count + 1
    /\ table_locked' = TRUE
    /\ UNCHANGED <<tableVars, notifVars, att_in, att_out, notified, foreground, client>>

\* a faulty dispatcher: the table is unlocked before the handler is called
runner_write_unlocked ==
    /\ ~Halted
    /\ runner.pc = "receive"
    /\ att_count < MaxRequests
    /\ \E conn \in connected, req \in SplitRequests :
          /\ BridgeCall(attributes, req).kind = "Write"
          /\ exchange_area' = [exchange_area EXCEPT
                                  !.buf = req.data,
                                  !.request = BridgeCall(attributes, req)]
          /\ runner' = [pc |-> "write_wait", conn |-> conn, req |-> req,
                        resumed |-> "None"]
    /\ att_count' = att_count + 1
    /\ table_locked' = FALSE
    /\ UNCHANGED <<tableVars, notifVars, att_in, att_out, notified, foreground, client>>

\* the same for a write: the value is stored in the buffer first
runner_write ==
    /\ ~Halted
    /\ runner.pc = "receive"
    /\ att_count < MaxRequests
    /\ \E conn \in connected, req \in SplitRequests :
          /\ BridgeCall(attributes, req).kind = "Write"
          /\ exchange_area' = [exchange_area EXCEPT
                                  !.buf = req.data,
                                  !.request = BridgeCall(attributes, req)]
          /\ runner' = [pc |-> "write_wait", conn |-> conn, req |-> req,
                        resumed |-> "None"]
    /\ att_count' = att_count + 1
    /\ table_locked' = TRUE
    /\ UNCHANGED <<tableVars, notifVars, att_in, att_out, notified, foreground, client>>

\* response.wait() returns: the handler call ends, the request handler and
\* the round of the loop run to their end and the table is unlocked
runner_resume ==
    /\ ~Halted
    /\ runner.pc \in {"read_wait", "write_wait"}
    /\ exchange_area.response
    /\ \E p \in {GattProcess(attributes, notification, runner.conn, runner.req,
                             Bridge(exchange_area.buf))} :
           /\ att_in' = [conn |-> runner.conn, req |-> runner.req,
                         h |-> Bridge(exchange_area.buf)]
           /\ att_out' = p.out
           /\ attributes' = p.attrs
           /\ notification' = p.notif
           /\ runner' = [runner EXCEPT
                            !.pc = IF p.out.kind = "panic" THEN "panicked" ELSE "receive",
                            !.resumed = IF runner.pc = "read_wait" THEN "Read" ELSE "Write"]
    /\ exchange_area' = [exchange_area EXCEPT !.response = FALSE]
    /\ table_locked' = FALSE
    /\ UNCHANGED <<table_handle, service_builder, char_builder, sealed, built, connected,
                   last_call, att_count, notified, foreground, client>>

\* GattEvents::next: request.wait() returns the signalled request
events_next ==
    /\ ~Halted
    /\ foreground.pc = "next"
    /\ exchange_area.request # NoRequest
    /\ foreground' = [pc |-> exchange_area.request.kind,
                      handle |-> exchange_area.request.handle,
                      offset |-> exchange_area.request.offset,
                      fetched |-> FALSE]
    /\ exchange_area' = [exchange_area EXCEPT !.request = NoRequest]
    /\ UNCHANGED <<tableVars, notifVars, attVars, runner, table_locked, client>>

\* GattReadRequest::reply_with
reply_with ==
    /\ ~Halted
    /\ foreground.pc = "Read"
    /\ \E data \in ReplyChoices :
          IF Len(data) > L2CAP_MTU
          THEN /\ exchange_area' = [exchange_area EXCEPT !.buf = <<>>]
               /\ foreground' = [foreground EXCEPT !.pc = "panicked"]
          ELSE /\ exchange_area' = [exchange_area EXCEPT !.buf = data,
                                                         !.response = TRUE]
               /\ foreground' = [foreground EXCEPT !.pc = "next"]
    /\ UNCHANGED <<tableVars, notifVars, attVars, runner, table_locked, client>>

\* GattWriteRequest::fetch
fetch ==
    /\ ~Halted
    /\ foreground.pc = "Write"
    /\ \E size \in FetchSizes :
          IF Len(exchange_area.buf) > size
          THEN foreground' = [foreground EXCEPT !.pc = "panicked"]
          ELSE foreground' = [foreground EXCEPT !.pc = "next", !.fetched = TRUE]
    /\ UNCHANGED <<tableVars, notifVars, attVars, exchange_area, runner, table_locked, client>>

NextSplit ==
    \/ runner_process
    \/ runner_read
    \/ runner_write
    \/ runner_resume
    \/ events_next
    \/ reply_with
    \/ fetch

SpecSplit == InitSplit /\ [][NextSplit]_vars

\* the application drops the future of GattRunner::run while the bridge
\* awaits the response, and calls run again: the request in flight is
\* cancelled unanswered and the guard of the table is dropped; the exchange
\* area, which the server owns, keeps its signals and its buffer
runner_drop ==
    /\ ~Halted
    /\ runner.pc \in {"read_wait", "write_wait"}
    /\ runner' = [runner EXCEPT !.pc = "receive", !.resumed = "None"]
    /\ table_locked' = FALSE
    /\ UNCHANGED <<tableVars, notifVars, attVars, exchange_area, foreground, client>>

NextSplitDrop ==
    \/ NextSplit
    \/ runner_drop

\* split mode with an application that may cancel the dispatcher
SpecSplitDrop == InitSplit /\ [][NextSplitDrop]_vars

-----------------------------------------------------------------------------
(* The client's discovery calls against a peer (specification SpecClient)   *)

\* the peer's services and characteristic declarations: two Battery services,
\* a custom one that ends at 0xFFFF, and three characteristics in the first
PeerServices ==
    <<[start |-> 1, end |-> 8, uuid |-> BATTERY_SERVICE_UUID16],
      [start |-> 16, end |-> 23, uuid |-> BATTERY_SERVICE_UUID16],
      [start |-> 32, end |-> 65535, uuid |-> CUSTOM_UUID128]>>
PeerDeclarations ==
    <<[handle |-> 2, props |-> PROP_READ + PROP_NOTIFY, value_handle |-> 3,
       uuid |-> BATTERY_LEVEL_UUID16],
      [handle |-> 5, props |-> PROP_READ, value_handle |-> 6,
       uuid |-> DEVICE_NAME_UUID16],
      [handle |-> 7, props |-> PROP_WRITE, value_handle |-> 8,
       uuid |-> CUSTOM_UUID128]>>

\* AttRsp as the client decodes it: an error, or the entries of a response
RspError(code) == [kind |-> "Error", code |-> code, entries |-> <<>>]
RspEntries(kind, entries) == [kind |-> kind, code |-> 0, entries |-> entries]

\* what the peer may answer: an error it puts in front of everything, the
\* first one or two of the matches, or AttributeNotFound when nothing matches
PeerAnswers(kind, matches) ==
    {RspError(InsufficientAuthentication)}
    \cup (IF matches = <<>>
          THEN {RspError(AttributeNotFound)}
          ELSE {RspEntries(kind, Take(matches, n)) : n \in 1..Min(2, Len(matches))})

\* the peer's answers to FindByTypeValue{start, 0xffff, PRIMARY_SERVICE, uuid};
\* a peer may also answer a request that has a match with all its services
\* of that UUID, the last one first
PeerFindByTypeValue(start, uuid) ==
    LET Hit(svc) == svc.start >= start /\ svc.uuid = uuid
        Same(svc) == svc.uuid = uuid
        LastFirst(svcs) == [i \in 1..Len(svcs) |-> svcs[Len(svcs) + 1 - i]]
    IN  PeerAnswers("FindByTypeValue", SelectSeq(PeerServices, Hit))
        \cup (IF SelectSeq(PeerServices, Hit) = <<>> THEN {}
              ELSE {RspEntries("FindByTypeValue",
                               LastFirst(SelectSeq(PeerServices, Same)))})

\* the peer's answers to ReadByType{start, end, CHARACTERISTIC}: pairs of the
\* declaration's handle and its value
PeerReadByType(start, end) ==
    LET Hit(d) == d.handle >= start /\ d.handle <= end
        Pair(d) == [handle |-> d.handle,
                    item |-> <<d.props>> \o u16_le(d.value_handle) \o d.uuid]
        Pairs(ds) == [i \in 1..Len(ds) |-> Pair(ds[i])]
    IN  PeerAnswers("ReadByType", Pairs(SelectSeq(PeerDeclarations, Hit)))

\* the peer's answers to ReadByType{start, end, CCCD}: the CCCD behind the value
\* of a characteristic with Notify or Indicate
PeerReadCccd(start, end) ==
    LET Hit(d) == /\ AnyNotifyIndicate(d.props)
                  /\ d.value_handle + 1 >= start /\ d.value_handle + 1 <= end
        Pair(d) == [handle |-> d.value_handle + 1, item |-> <<0, 0>>]
        Pairs(ds) == [i \in 1..Len(ds) |-> Pair(ds[i])]
    IN  PeerAnswers("ReadByType", Pairs(SelectSeq(PeerDeclarations, Hit)))

\* a faulty decode_declaration: the value handle is read big-endian
DecodeDeclarationBigEndian(item) ==
    [props |-> item[1], handle |-> 256 * item[2] + item[3], uuid |-> Drop(item, 3)]

\* AttributeData::decode_declaration: props, value handle, the rest as uuid
DecodeDeclaration(item) ==
    [props |-> item[1], handle |-> item[2] + 256 * item[3], uuid |-> Drop(item, 3)]

\* a discovery call returns; with an error its result is dropped
ReturnOk(c) == [c EXCEPT !.pc = "idle", !.ret = [kind |-> "Ok", err |-> "", code |-> 0]]
ReturnErr(c, err, code) ==
    [c EXCEPT !.pc = "idle", !.result = <<>>, !.found = NoCharacteristic,
              !.ret = [kind |-> "Err", err |-> err, code |-> code]]

\* services_by_uuid, the loop over the entries of a response from entry k on:
\* each is pushed to result and to known_services, both of capacity MAX_SERVICES
RECURSIVE PushServices(_, _, _)
PushServices(c, entries, k) ==
    IF k > Len(entries) THEN c
    ELSE IF Len(c.result) >= MAX_SERVICES \/ Len(c.known_services) >= MAX_SERVICES
    THEN ReturnErr(c, "InsufficientSpace", 0)
    ELSE PushServices(
             [c EXCEPT !.result = Append(@, [start |-> entries[k].start,
                                             end |-> entries[k].end,
                                             uuid |-> c.uuid]),
                       !.known_services = Append(@, [start |-> entries[k].start,
                                                     end |-> entries[k].end,
                                                     uuid |-> c.uuid])],
             entries, k + 1)

\* services_by_uuid, the match on the response to one FindByTypeValue
ServicesResponse(c, rsp) ==
    LET End(entries) == IF entries = <<>> THEN 0 ELSE entries[Len(entries)].end
        Next(c2) ==
            IF c2.pc = "idle" THEN c2
            ELSE IF End(rsp.entries) = 65535 THEN ReturnOk(c2)
            ELSE [c2 EXCEPT !.start = End(rsp.entries) + 1]
    IN  IF rsp.kind = "Error"
        THEN (IF rsp.code = AttributeNotFound THEN ReturnOk(c)
              ELSE ReturnErr(c, "Att", rsp.code))
        ELSE IF rsp.kind = "FindByTypeValue"
        THEN Next(PushServices(c, rsp.entries, 1))
        ELSE ReturnErr(c, "InvalidValue", 0)

\* characteristic_by_uuid, the loop over the pairs of a response from pair k
\* on; a match with Notify or Indicate goes on to get_characteristic_cccd
RECURSIVE ScanDeclarations(_, _, _)
ScanDeclarations(c, entries, k) ==
    LET Decoded(d) ==
            IF c.uuid = d.uuid
            THEN (IF AnyNotifyIndicate(d.props)
                  THEN [c EXCEPT !.pc = "cccd",
                                 !.found = [handle |-> d.handle, cccd_handle |-> 0]]
                  ELSE ReturnOk([c EXCEPT !.found = [handle |-> d.handle,
                                                     cccd_handle |-> 0]]))
            ELSE IF d.handle = 65535 THEN ReturnErr(c, "NotFound", 0)
            ELSE ScanDeclarations([c EXCEPT !.start = d.handle + 1], entries, k + 1)
    IN  IF k > Len(entries) THEN c
        ELSE IF Len(entries[k].item) < 5 THEN ReturnErr(c, "InvalidValue", 0)
        ELSE Decoded(DecodeDeclaration(entries[k].item))

\* characteristic_by_uuid, the match on the response to one ReadByType
CharacteristicResponse(c, rsp) ==
    IF rsp.kind = "ReadByType" THEN ScanDeclarations(c, rsp.entries, 1)
    ELSE IF rsp.kind = "Error" THEN ReturnErr(c, "Att", rsp.code)
    ELSE ReturnErr(c, "InvalidValue", 0)

\* get_characteristic_cccd and the return of characteristic_by_uuid
CccdResponse(c, rsp) ==
    IF rsp.kind = "ReadByType"
    THEN (IF rsp.entries = <<>> THEN ReturnErr(c, "NotFound", 0)
          ELSE IF Len(rsp.entries[1].item) # 2 THEN ReturnErr(c, "OutOfMemory", 0)
          ELSE ReturnOk([c EXCEPT !.found.cccd_handle = rsp.entries[1].handle]))
    ELSE IF rsp.kind = "Error" THEN ReturnErr(c, "Att", rsp.code)
    ELSE ReturnErr(c, "InvalidValue", 0)

\* the UUIDs the application looks for: services and characteristics of the
\* peer, and DEVICE_NAME which no service and BATTERY_SERVICE which no
\* characteristic of the peer has
ServiceTargets == {BATTERY_SERVICE_UUID16, CUSTOM_UUID128, DEVICE_NAME_UUID16}
CharacteristicTargets ==
    {BATTERY_LEVEL_UUID16, DEVICE_NAME_UUID16, CUSTOM_UUID128, BATTERY_SERVICE_UUID16}

InitClient ==
    /\ attributes = SampleTable.attributes
    /\ table_handle = SampleTable.handle
    /\ service_builder = NoBuilder
    /\ char_builder = -1
    /\ sealed = <<>>
    /\ built = SampleBuilt
    /\ notification = NotificationTableNew
    /\ connected = Conns
    /\ last_call = NoCall
    /\ InitServer

StartCall(pc, uuid, start, end) ==
    [client EXCEPT !.pc = pc, !.uuid = uuid, !.start = start, !.end = end,
                   !.result = <<>>, !.found = NoCharacteristic, !.ret = NoResult,
                   !.calls = @ + 1]

\* GattClient::services_by_uuid is called
services_by_uuid ==
    /\ client.pc = "idle"
    /\ client.calls < MaxCalls
    /\ \E uuid \in ServiceTargets : client' = StartCall("services", uuid, 1, 65535)
    /\ UNCHANGED <<tableVars, notifVars, attVars, splitVars>>

\* services_by_uuid: one request and the handling of its response
services_by_uuid_request ==
    /\ client.pc = "services"
    /\ \E rsp \in PeerFindByTypeValue(client.start, client.uuid) :
          client' = ServicesResponse(client, rsp)
    /\ UNCHANGED <<tableVars, notifVars, attVars, splitVars>>

\* GattClient::characteristic_by_uuid is called for a service of the peer
characteristic_by_uuid ==
    /\ client.pc = "idle"
    /\ client.calls < MaxCalls
    /\ \E i \in 1..Len(PeerServices), uuid \in CharacteristicTargets :
          client' = StartCall("characteristic", uuid, PeerServices[i].start,
                              PeerServices[i].end)
    /\ UNCHANGED <<tableVars, notifVars, attVars, splitVars>>

\* characteristic_by_uuid: one request and the handling of its response
characteristic_by_uuid_request ==
    /\ client.pc = "characteristic"
    /\ \E rsp \in PeerReadByType(client.start, client.end) :
          client' = CharacteristicResponse(client, rsp)
    /\ UNCHANGED <<tableVars, notifVars, attVars, splitVars>>

\* get_characteristic_cccd: its request and the handling of the response
get_characteristic_cccd ==
    /\ client.pc = "cccd"
    /\ \E rsp \in PeerReadCccd(client.found.handle, client.found.handle + 1) :
          client' = CccdResponse(client, rsp)
    /\ UNCHANGED <<tableVars, notifVars, attVars, splitVars>>

NextClient ==
    \/ services_by_uuid
    \/ services_by_uuid_request
    \/ characteristic_by_uuid
    \/ characteristic_by_uuid_request
    \/ get_characteristic_cccd

SpecClient == InitClient /\ [][NextClient]_vars

-----------------------------------------------------------------------------
(* The client's receive task and request() (specification SpecClientTask)   *)

\* what the peer sends: a Write response, an error response, a notification
\* of two value bytes, and a notification cut short behind the first byte of
\* its handle
PeerPdus ==
    {<<ATT_WRITE_RSP>>,
     <<ATT_ERROR_RSP, ATT_WRITE_REQ, 4, 0, AttributeNotFound>>,
     <<ATT_HANDLE_VALUE_NTF, 3, 0, 42, 43>>,
     <<ATT_HANDLE_VALUE_NTF, 3>>}

\* GattClient::handle_notification_packet on the bytes behind the opcode: the
\* Notification published, or the error of reading the u16 handle
HandleNotificationPacket(data) ==
    IF Len(data) < 2 THEN [ok |-> FALSE, n |-> <<>>]
    ELSE [ok |-> TRUE,
          n |-> [handle |-> data[1] + 256 * data[2],
                 data |-> Take(Drop(data, 2), Min(L2CAP_MTU, Len(data) - 2)),
                 len |-> Min(L2CAP_MTU, Len(data) - 2)]]

\* the host puts a PDU of the peer into att_inbound
pdu_arrives ==
    /\ Len(client.arrived) < MaxPdus
    /\ \E pdu \in PeerPdus : client' = [client EXCEPT !.arrived = Append(@, pdu)]
    /\ UNCHANGED <<tableVars, notifVars, attVars, splitVars>>

\* one round of the loop of GattClient::task: a notification is published, or
\* the task returns with the error of handle_notification_packet; any other
\* PDU is sent to the response channel, which takes one PDU
task ==
    /\ client.task = "running"
    /\ client.taken < Len(client.arrived)
    /\ \E pdu \in {client.arrived[client.taken + 1]} :
          IF pdu[1] = ATT_HANDLE_VALUE_NTF
          THEN \E r \in {HandleNotificationPacket(Drop(pdu, 1))} :
                  client' = [client EXCEPT
                                !.taken = @ + 1,
                                !.task = IF r.ok THEN "running" ELSE "returned",
                                !.published = IF r.ok THEN Append(@, r.n) ELSE @]
          ELSE /\ client.response_channel = <<>>
               /\ client' = [client EXCEPT !.taken = @ + 1,
                                           !.response_channel = <<pdu>>]
    /\ UNCHANGED <<tableVars, notifVars, attVars, splitVars>>

\* Client::request up to response_channel.receive(): the request is sent
request ==
    /\ ~client.outstanding
    /\ client' = [client EXCEPT !.outstanding = TRUE]
    /\ UNCHANGED <<tableVars, notifVars, attVars, splitVars>>

\* Client::request from response_channel.receive() on: the PDU is returned
request_receive ==
    /\ client.outstanding
    /\ client.response_channel # <<>>
    /\ client' = [client EXCEPT !.outstanding = FALSE,
                                !.returned = Append(@, client.response_channel[1]),
                                !.response_channel = <<>>]
    /\ UNCHANGED <<tableVars, notifVars, attVars, splitVars>>

NextClientTask ==
    \/ pdu_arrives
    \/ task
    \/ request
    \/ request_receive

SpecClientTask == InitClient /\ [][NextClientTask]_vars


-----------------------------------------------------------------------------
(* Properties of the split mode                                             *)

\* C3: once the foreground task has fetched the value of a Write event, the
\* response is signalled to the dispatcher waiting in the bridged write (so
\* that it can complete the write, send the response and unlock the table).
C3_FetchSignalsResponse ==
    (foreground.fetched /\ runner.pc = "write_wait") => exchange_area.response

\* C4: the bridged read the dispatcher resumes after reply_with completes,
\* and the response to the request is sent.
C4_RepliedReadCompletes ==
    (runner.resumed = "Read") => (runner.pc = "receive" /\ att_out.kind = "pdu")

\* C22: the loop takes a request only when the round of the one before has
\* ended (no handler call pending, table unlocked), and whatever it sends is
\* the answer to the request taken last and ends that request's round; so
\* responses leave in the order the requests came in.
C22_ResponsesInRequestOrder ==
    [][ /\ (att_count' = att_count + 1) =>
              (runner.pc = "receive" /\ ~table_locked)
        /\ (att_out' # att_out \/ att_in' # att_in) =>
              /\ runner'.pc \in {"receive", "panicked"}
              /\ ~table_locked'
              /\ att_count' = att_count =>
                    (att_in'.req = runner.req /\ att_in'.conn = runner.conn)
      ]_vars

\* C22 witness: the second request taken went through the handler and was
\* answered
C22_Witness ==
    /\ att_count = 2
    /\ runner.pc = "receive"
    /\ runner.resumed \in {"Read", "Write"}
    /\ att_out.kind = "pdu"
    /\ att_in.req = runner.req

\* the dispatcher awaits the response of a handler call
AwaitsHandler == runner.pc \in {"read_wait", "write_wait"}

C31_ReadResumesOnItsOwnReply ==
    [][ (runner.pc = "read_wait" /\ runner'.resumed = "Read")
        => /\ foreground.pc = "next"
           /\ foreground.handle = BridgeCall(attributes, runner.req).handle
      ]_vars

-----------------------------------------------------------------------------
(* Properties of CCCD writes and of notify                                  *)

\* the latest request was a Write to a CCCD answered with the Write response
CccdWriteAnswered ==
    /\ att_in.req.op = "Write"
    /\ att_in.req.handle \in CccdHandles
    /\ att_out.kind = "pdu"
    /\ SentPdu = <<ATT_WRITE_RSP>>

\* C11: when a Write request to a CCCD is answered with the Write response,
\* the notification table is, in the state that holds the response, the one
\* set_notify(conn, handle, bit 0 of the written value) makes of the table
\* before the request.
C11_CccdWriteUpdatesRegistryFirst ==
    [][ (att_count' = att_count + 1 /\ ~notified'.made /\ CccdWriteAnswered')
          => notification' = SetNotify(notification, att_in'.conn, att_in'.req.handle,
                                       HasBit(att_in'.req.data[1], 1))
      ]_vars

\* C11 witness: the Write response to 01 00 is out and should_notify holds
C11_Witness ==
    /\ CccdWriteAnswered
    /\ att_in.req.data = <<1, 0>>
    /\ ShouldNotify(notification, att_in.conn, att_in.req.handle)

\* the latest notify call was for a characteristic that has a CCCD
NotifiedWithCccd == notified.made /\ notified.char.cccd_handle # 0

\* the notification PDU of the latest notify call: opcode, value handle, value
NotificationPdu ==
    <<ATT_HANDLE_VALUE_NTF>> \o u16_le(notified.char.handle) \o notified.value

\* the latest notify call handed exactly its notification PDU to the sender
NotificationSent ==
    /\ notified.out.kind = "pdu"
    /\ notified.out.bytes = u16_le(Len(NotificationPdu)) \o u16_le(4) \o NotificationPdu

\* the value of the latest notify call fits tx behind the L2CAP header,
\* the opcode and the value handle
NotifiedValueFits == Len(notified.value) <= L2CAP_MTU - 7

\* C12 as claimed: notify for a characteristic with a CCCD hands the
\* notification PDU to the ACL sender exactly if should_notify was true at
\* the call, and returns Ok with nothing sent if it was false.
C12_NotifySendsIffSubscribed ==
    NotifiedWithCccd =>
        /\ NotificationSent <=> notified.subscribed
        /\ ~notified.subscribed => notified.out.kind = "none"

\* C12 amended: for a value of at most L2CAP_MTU - 7 bytes the PDU is handed
\* over exactly if should_notify was true; a longer value is never sent, and
\* the call returns Ok with nothing sent if should_notify was false and an
\* error if it was true.
C12_NotifySendsIffSubscribedAndFits ==
    NotifiedWithCccd =>
        /\ NotificationSent <=> (notified.subscribed /\ NotifiedValueFits)
        /\ ~notified.subscribed => notified.out.kind = "none"
        /\ (notified.subscribed /\ ~NotifiedValueFits) => notified.out.kind = "error"

\* C12 witness: after the CCCD at 0x0013 was enabled, notify of [42] on the
\* characteristic at 0x0012 sends 1B 12 00 2A
C12_Witness ==
    /\ NotifiedWithCccd
    /\ notified.subscribed
    /\ notified.out.kind = "pdu"
    /\ Drop(notified.out.bytes, 4) = <<27, 18, 0, 42>>

\* C13: a Write command never produces a response and never fails: whatever
\* goes wrong with it (no such attribute, attribute not writable, an error of
\* the value codec or of the handler) is swallowed, the dispatcher returns no
\* bytes and keeps running.
C13_WriteCmdIsSilent ==
    (att_in.req.op = "WriteCmd") => att_out.kind = "none"

\* what a Read request of handle hdl by connection conn is answered with
ReadAnswer(attrs, notif, conn, hdl) ==
    GattProcess(attrs, notif, conn, Read(hdl), Bridge(<<>>)).out

\* C14: the value of a CCCD is kept per connection: after connection A wrote
\* a CCCD (as the first request the server took), a Read of that handle by
\* another connection B is answered as it was before A's write.
C14_CccdValuePerConnection ==
    (att_count = 1 /\ CccdWriteAnswered) =>
        \A conn \in Conns \ {att_in.conn} :
            ReadAnswer(attributes, notification, conn, att_in.req.handle)
              = ReadAnswer(SampleTable.attributes, NotificationTableNew, conn,
                           att_in.req.handle)

\* C15: a Read or Read Blob request of an attribute that exists and is not
\* readable (Data whose props lack Read) is answered with an error response
\* carrying ReadNotPermitted and the handle of the attribute.
C15_ReadOfNotReadableIsNotPermitted ==
    (/\ att_in.req.op \in {"Read", "ReadBlob"}
     /\ Addressed # 0
     /\ ~Readable(attributes[Addressed].data))
        => /\ att_out.kind = "pdu"
           /\ SentPdu = <<ATT_ERROR_RSP,
                          IF att_in.req.op = "Read" THEN ATT_READ_REQ
                                                    ELSE ATT_READ_BLOB_REQ>>
                          \o u16_le(att_in.req.handle) \o <<ReadNotPermitted>>

-----------------------------------------------------------------------------
(* Properties of the layout of the attribute table                          *)

\* C16: last_handle_in_group >= handle for every stored attribute, those of
\* a service that is still being built included.
C16_GroupEndNotBelowHandle ==
    \A i \in 1..Len(attributes) :
        attributes[i].last_handle_in_group >= attributes[i].handle

\* C17: whenever no service is being built and one was sealed, next_handle
\* is a multiple of 16, and the first service declaration has handle 1 and
\* every later one a handle that is a multiple of 16.
C17_SealAlignsNextHandle ==
    /\ (~service_builder.active /\ sealed # <<>>) => table_handle % 16 = 0
    /\ \A i \in 1..Len(attributes) :
          attributes[i].data.kind = "Service" =>
              IF i = 1 THEN attributes[i].handle = 1
                       ELSE attributes[i].handle % 16 = 0

\* C17 witness: a service was sealed when next_handle was already a multiple
\* of 16 (its last attribute has handle 15), and next_handle went on to 32
C17_Witness ==
    /\ ~service_builder.active
    /\ sealed # <<>>
    /\ attributes[Len(attributes)].handle % 16 = 15
    /\ table_handle = attributes[Len(attributes)].handle + 17

\* C18: the handles of the stored attributes are strictly increasing in the
\* order of the sequence (each is below the next), and none is 0.
C18_HandlesStrictlyIncreasing ==
    /\ \A i \in 1..Len(attributes) : attributes[i].handle # 0
    /\ \A i \in 1..(Len(attributes) - 1) :
          attributes[i].handle < attributes[i + 1].handle

\* C18 witness: attributes of a second service, a characteristic with a
\* descriptor among them, follow a sealed service across the jump of handles
C18_Witness ==
    /\ Len(sealed) >= 1
    /\ Len(attributes) >= sealed[1].len + 4
    /\ attributes[sealed[1].len + 1].handle > attributes[sealed[1].len].handle + 1
    /\ char_builder = 1

\* C19: every Declaration at index i is followed by an attribute i+1 whose
\* handle is the value_handle of the Declaration and whose uuid is the value
\* UUID the Declaration carries.
C19_DeclarationNamesItsValue ==
    \A i \in 1..Len(attributes) :
        attributes[i].data.kind = "Declaration" =>
            /\ i + 1 <= Len(attributes)
            /\ attributes[i + 1].handle = attributes[i].data.handle
            /\ attributes[i + 1].uuid = attributes[i].data.uuid

\* C19 witness: a declaration right behind the jump of handles of a seal, and
\* one with a 128-bit value UUID
C19_Witness ==
    /\ \E i \in 1..Len(attributes) :
          /\ attributes[i].data.kind = "Declaration"
          /\ attributes[i].handle = 17
          /\ attributes[i].data.handle = 18
    /\ \E i \in 1..Len(attributes) :
          /\ attributes[i].data.kind = "Declaration"
          /\ attributes[i].data.uuid = CUSTOM_UUID128

\* the Declaration at index i has Notify or Indicate among its props
DeclaresNotifyOrIndicate(i) ==
    /\ i >= 1
    /\ attributes[i].data.kind = "Declaration"
    /\ (attributes[i].data.props \div PROP_NOTIFY) % 2 = 1
       \/ (attributes[i].data.props \div PROP_INDICATE) % 2 = 1

\* C20: for every Declaration at index i, attribute i+2 is a CCCD (of this
\* characteristic: it sits right behind its value) exactly if the props of
\* the Declaration contain Notify or Indicate; and every CCCD in the table
\* is such a one.
C20_CccdIffNotifyOrIndicate ==
    /\ \A i \in 1..Len(attributes) :
          attributes[i].data.kind = "Declaration" =>
              (DeclaresNotifyOrIndicate(i)
                 <=> /\ i + 2 <= Len(attributes)
                     /\ attributes[i + 2].data.kind = "Cccd"
                     /\ attributes[i + 2].uuid = CHARACTERISTIC_CCCD_UUID16
                     /\ attributes[i + 2].handle = attributes[i].data.handle + 1)
    /\ \A j \in 1..Len(attributes) :
          attributes[j].data.kind = "Cccd" => DeclaresNotifyOrIndicate(j - 2)

\* C20 witness: a characteristic with Notify, one with Indicate only, and one
\* with neither that is followed by a descriptor at i+2
C20_Witness ==
    /\ \E i \in 1..Len(attributes) :
          /\ attributes[i].data.kind = "Declaration"
          /\ attributes[i].data.props = PROP_READ + PROP_NOTIFY
    /\ \E i \in 1..Len(attributes) :
          /\ attributes[i].data.kind = "Declaration"
          /\ attributes[i].data.props = PROP_WRITE + PROP_INDICATE
    /\ \E i \in 1..Len(attributes) :
          /\ attributes[i].data.kind = "Declaration"
          /\ ~DeclaresNotifyOrIndicate(i)
          /\ i + 2 <= Len(attributes)
          /\ attributes[i + 2].data.kind = "Data"

\* the index of the attribute with the handle h (0: none)
IndexOfHandle(h) == FirstIndex({i \in 1..Len(attributes) : attributes[i].handle = h})

\* the value of the k-th characteristic built is followed by an attribute of
\* the kind
FollowedBy(k, kind) ==
    \E i \in {IndexOfHandle(built[k].handle)} :
        /\ i >= 1
        /\ i < Len(attributes)
        /\ attributes[i + 1].data.kind = kind

\* C40: for every Characteristic a CharacteristicBuilder returned,
\* find_characteristic_by_value_handle of its value handle returns that same
\* Characteristic from the table as it is now, and its cccd_handle is the
\* value handle + 1 if the declaration in front of the value has Notify or
\* Indicate and None (0) otherwise.
C40_FindReturnsTheBuiltCharacteristic ==
    \A k \in 1..Len(built) :
        /\ FindCharacteristicByValueHandle(attributes, built[k].handle) = built[k]
        /\ \E i \in {IndexOfHandle(built[k].handle - 1)} :
              /\ i >= 1
              /\ attributes[i].data.kind = "Declaration"
              /\ built[k].cccd_handle
                   = IF DeclaresNotifyOrIndicate(i) THEN built[k].handle + 1 ELSE 0

\* C40 witness: a finished table with a characteristic that has Indicate
\* only, one without a CCCD whose value is followed by a descriptor, and one
\* without a CCCD whose value is followed by the next service
C40_Witness ==
    /\ ~service_builder.active
    /\ \E k \in 1..Len(built) :
          /\ built[k].cccd_handle # 0
          /\ attributes[IndexOfHandle(built[k].handle - 1)].data.props
               = PROP_WRITE + PROP_INDICATE
    /\ \E k \in 1..Len(built) : built[k].cccd_handle = 0 /\ FollowedBy(k, "Data")
    /\ \E k \in 1..Len(built) : built[k].cccd_handle = 0 /\ FollowedBy(k, "Service")

-----------------------------------------------------------------------------
(* Properties of the responses                                              *)

\* the response buffers AttributeServer::process is handed: the zeroed one of
\* GattServer::process, and one that still holds bytes of earlier use
ResponseBuffers == {[i \in 1..(L2CAP_MTU - 4) |-> 0], Fill(L2CAP_MTU - 4)}

\* the response AttributeServer::process writes to rx for a Read of hdl
ReadResponse(conn, hdl, rx) ==
    Process(attributes, notification, conn, Read(hdl), rx, Bridge(<<>>)).out

\* C21: after a successful Write of first byte b to a CCCD, a Read of it is
\* answered 0B, b & 0x03, 00 whatever the response buffer held before; a CCCD
\* that was never written is answered 0B 00 00.
C21_CccdReadsBackMasked ==
    /\ CccdWriteAnswered =>
          \A rx \in ResponseBuffers :
              ReadResponse(att_in.conn, att_in.req.handle, rx)
                = [kind |-> "pdu",
                   bytes |-> <<ATT_READ_RSP, att_in.req.data[1] % 4, 0>>]
    /\ att_count = 0 =>
          \A rx \in ResponseBuffers, hdl \in CccdHandles, conn \in Conns :
              ReadResponse(conn, hdl, rx)
                = [kind |-> "pdu", bytes |-> <<ATT_READ_RSP, 0, 0>>]

\* the services the latest Find By Type Value request matches
ServicesFound ==
    {i \in 1..Len(attributes) :
        /\ attributes[i].handle >= att_in.req.start
        /\ attributes[i].handle <= att_in.req.end
        /\ attributes[i].uuid = u16_le(att_in.req.att_type)
        /\ attributes[i].data.kind = "Service"
        /\ attributes[i].data.uuid = att_in.req.data}

\* C24: a Find By Type Value success response is the opcode 0x07 and, for
\* each matching service, its handle and its last_handle_in_group and nothing
\* else: 5 bytes for one matching service.
C24_FindByTypeValueOmitsUuid ==
    (/\ att_in.req.op = "FindByTypeValue"
     /\ att_out.kind = "pdu"
     /\ SentPdu[1] = ATT_FIND_BY_TYPE_VALUE_RSP)
        => /\ Len(SentPdu) = 1 + 4 * Cardinality(ServicesFound)
           /\ \A i \in ServicesFound :
                 Cardinality(ServicesFound) = 1 =>
                     SentPdu = <<ATT_FIND_BY_TYPE_VALUE_RSP>>
                                 \o u16_le(attributes[i].handle)
                                 \o u16_le(attributes[i].last_handle_in_group)

\* the opcode of a request
RequestOpcode(op) ==
    CASE op = "ReadByType" -> ATT_READ_BY_TYPE_REQ
      [] op = "ReadByGroupType" -> ATT_READ_BY_GROUP_TYPE_REQ
      [] op = "FindInformation" -> ATT_FIND_INFORMATION_REQ
      [] op = "Read" -> ATT_READ_REQ
      [] op = "Write" -> ATT_WRITE_REQ
      [] op = "FindByTypeValue" -> ATT_FIND_BY_TYPE_VALUE_REQ
      [] op = "PrepareWrite" -> ATT_PREPARE_WRITE_REQ
      [] op = "ReadBlob" -> ATT_READ_BLOB_REQ
      [] op = "ReadMultiple" -> ATT_READ_MULTIPLE_REQ
      [] OTHER -> 0

\* hdl is the handle the latest request names: its handle, the first of its
\* handles, or for a request over a range the start of the range or the
\* handle of an attribute in it
HandleOfRequest(hdl) ==
    CASE att_in.req.op \in {"Read", "Write", "PrepareWrite", "ReadBlob"} ->
            hdl = att_in.req.handle
      [] att_in.req.op = "ReadMultiple" ->
            hdl = att_in.req.data[1] + 256 * att_in.req.data[2]
      [] OTHER ->
            \/ hdl = att_in.req.start
            \/ /\ hdl >= att_in.req.start /\ hdl <= att_in.req.end
               /\ FindByHandle(attributes, hdl) # 0

\* C25: an error response is exactly 5 bytes: 0x01, the opcode of the
\* request, a handle of the request in little-endian and an error code, with
\* nothing left of a success response begun before; the frame announces 5 bytes.
C25_ErrorResponseIsFiveBytes ==
    (att_out.kind = "pdu" /\ SentPdu[1] = ATT_ERROR_RSP)
        => /\ Len(SentPdu) = 5
           /\ Take(att_out.bytes, 4) = <<5, 0, 4, 0>>
           /\ SentPdu[2] = RequestOpcode(att_in.req.op)
           /\ HandleOfRequest(SentPdu[3] + 256 * SentPdu[4])
           /\ SentPdu[5] \in 1 .. 255

\* C25 witness: a Read By Type whose handler refuses the read, after the
\* handle of the attribute was written to the response as a success begins
C25_Witness ==
    /\ att_in.req.op = "ReadByType"
    /\ att_out.kind = "pdu"
    /\ SentPdu[1] = ATT_ERROR_RSP
    /\ SentPdu[5] = InsufficientAuthentication
    /\ SentPdu[3] # att_in.req.start

\* declarations to encode: properties none, two and all; value handles at the
\* ends of u16 and on both sides of a byte carry; a 16-bit and a 128-bit UUID
Declarations ==
    {DataDeclaration(props, hdl, uuid) :
        props \in {0, PROP_READ + PROP_NOTIFY, 255},
        hdl \in {0, 3, 255, 256, 4660, 65535},
        uuid \in {BATTERY_LEVEL_UUID16, CUSTOM_UUID128}}

\* the bytes AttributeData::read leaves for a Declaration read at offset 0
\* into a zeroed slice with room for the declaration and `spare` bytes more
EncodeDeclaration(data, spare) ==
    LET Bytes(r) == IF r.err = 0 THEN Take(r.out, r.len) ELSE <<>>
    IN  Bytes(DeclarationRead(data, 0, [i \in 1..(3 + Len(data.uuid) + spare) |-> 0]))

Declared(data) == [props |-> data.props, handle |-> data.handle, uuid |-> data.uuid]

\* the request just taken is a Read of a characteristic declaration that was
\* answered with a READ_RSP
DeclarationReadAnswered ==
    /\ att_in.req.op = "Read"
    /\ Addressed > 0
    /\ attributes[Addressed].data.kind = "Declaration"
    /\ att_out.kind = "pdu"
    /\ SentPdu[1] = ATT_READ_RSP

\* C27: a Declaration read at offset 0 into a buffer of at least 3 + uuid
\* length bytes and decoded by decode_declaration gives back its props, value
\* handle and uuid, for 16-bit and 128-bit UUIDs; so does the payload of the
\* READ_RSP to a Read of a declaration.
C27_DeclarationRoundTrip ==
    /\ att_count = 0 =>
          \A data \in Declarations, spare \in 0..2 :
              DecodeDeclaration(EncodeDeclaration(data, spare)) = Declared(data)
    /\ DeclarationReadAnswered =>
          DecodeDeclaration(Drop(SentPdu, 1)) = Declared(attributes[Addressed].data)

C27_Witness ==
    /\ DeclarationReadAnswered
    /\ attributes[Addressed].data.handle = att_in.req.handle + 1
    /\ Len(SentPdu) = 1 + 3 + Len(attributes[Addressed].data.uuid)

\* the value of a characteristic declaration: props, value handle, uuid
DeclarationValue(data) == <<data.props>> \o u16_le(data.handle) \o data.uuid

\* C28: a Read Blob request on a characteristic declaration with an offset of
\* at most the length of its value is answered with READ_BLOB_RSP followed by
\* the value from that offset on.
C28_ReadBlobServesFromOffset ==
    (/\ att_in.req.op = "ReadBlob"
     /\ Addressed > 0
     /\ attributes[Addressed].data.kind = "Declaration"
     /\ att_in.req.offset <= Len(DeclarationValue(attributes[Addressed].data)))
    => /\ att_out.kind = "pdu"
       /\ SentPdu = <<ATT_READ_BLOB_RSP>>
                       \o Drop(DeclarationValue(attributes[Addressed].data),
                               att_in.req.offset)

\* C29: the length field of the L2CAP header of a response frame is the
\* number of ATT bytes sent behind the header, also when the response was cut
\* to the ATT MTU of the connection.
C29_HeaderLengthIsBytesSent ==
    (att_in.req.op # "None" /\ att_out.kind = "pdu")
    => att_out.bytes[1] + 256 * att_out.bytes[2] = Len(SentPdu)

\* C30: the notification table never holds two entries for the same CCCD
\* handle and connection, however many CCCD writes the server took.
C30_NoDuplicateSubscription ==
    \A i, j \in 1..Len(notification) :
        (i < j /\ notification[i][1] # 0) => notification[i] # notification[j]

\* the attributes a Read By Type request matches, in table order
TypeMatches ==
    SelectSeq(attributes,
              LAMBDA att : /\ att.uuid = att_in.req.type
                           /\ att.handle >= att_in.req.start
                           /\ att.handle <= att_in.req.end)

\* the request just taken is a Read By Type that was answered
ReadByTypeAnswered == att_in.req.op = "ReadByType" /\ att_out.kind = "pdu"

\* C32: Read By Type is answered from the first attribute in table order
\* that has the type and its handle in [start, end]: with one pair of its
\* handle and value; with an ERROR_RSP carrying its handle when it is not
\* readable, whatever matches later; and with ERROR_RSP AttributeNotFound
\* carrying the start handle when nothing matches.
C32_ReadByTypeAnswersFirstMatch ==
    ReadByTypeAnswered =>
        IF TypeMatches = <<>>
        THEN SentPdu = <<ATT_ERROR_RSP, ATT_READ_BY_TYPE_REQ>>
                          \o u16_le(att_in.req.start) \o <<AttributeNotFound>>
        ELSE IF ~Readable(TypeMatches[1].data)
        THEN /\ SentPdu[1] = ATT_ERROR_RSP
             /\ SubSeq(SentPdu, 3, 4) = u16_le(TypeMatches[1].handle)
        ELSE /\ SubSeq(SentPdu, 3, 4) = u16_le(TypeMatches[1].handle)
             /\ SentPdu[1] \in {ATT_READ_BY_TYPE_RSP, ATT_ERROR_RSP}
             /\ SentPdu[1] = ATT_READ_BY_TYPE_RSP => SentPdu[2] = Len(SentPdu) - 2
             /\ (TypeMatches[1].data.kind \notin {"Data", "ReadOnlyData"}
                 \/ att_in.h.rd_err = 0)
                => SentPdu[1] = ATT_READ_BY_TYPE_RSP

\* C32 witness: the first match is not readable and a later one is
C32_Witness ==
    /\ ReadByTypeAnswered
    /\ Len(TypeMatches) > 1
    /\ ~Readable(TypeMatches[1].data)
    /\ Readable(TypeMatches[2].data)
    /\ SentPdu[5] = AttributeNotFound

\* the attributes with their handle in the range of the request just taken,
\* in table order
InRange ==
    SelectSeq(attributes,
              LAMBDA att : att.handle >= att_in.req.start /\ att.handle <= att_in.req.end)

\* the attributes a Find Information response lists: those of InRange ahead
\* of the first whose UUID is not as long as that of InRange[1]
Listed ==
    LET Other == {k \in 1..Len(InRange) : Len(InRange[k].uuid) # Len(InRange[1].uuid)}
    IN  IF Other = {} THEN InRange
        ELSE SubSeq(InRange, 1, (CHOOSE k \in Other : \A m \in Other : k <= m) - 1)

\* handle and UUID of each attribute of a sequence, one after the other
RECURSIVE InformationData(_)
InformationData(atts) ==
    IF atts = <<>> THEN <<>>
    ELSE u16_le(Head(atts).handle) \o Head(atts).uuid \o InformationData(Tail(atts))

\* a response as it is sent to the connection of the request: cut to its MTU
CutToMtu(bytes) == Take(bytes, Min(Len(bytes), GetAttMtu(att_in.conn)))

\* C33: a Find Information response lists, in table order, handle and UUID of
\* the attributes in [start, end] up to the first whose UUID is of the other
\* length than that of the first one in range, with format 1 for 16-bit and 2
\* for 128-bit UUIDs; with no attribute in range the answer is ERROR_RSP
\* AttributeNotFound.
C33_FindInformationListsOneClass ==
    (att_in.req.op = "FindInformation" /\ att_out.kind = "pdu")
    => IF InRange = <<>>
       THEN SentPdu = <<ATT_ERROR_RSP, ATT_FIND_INFORMATION_REQ>>
                         \o u16_le(att_in.req.start) \o <<AttributeNotFound>>
       ELSE SentPdu = CutToMtu(<<ATT_FIND_INFORMATION_RSP,
                                 IF Len(InRange[1].uuid) = 2 THEN 1 ELSE 2>>
                               \o InformationData(Listed))

\* C33 witness: the list ends ahead of an attribute in range with a 128-bit
\* UUID
C33_Witness ==
    /\ att_in.req.op = "FindInformation"
    /\ att_out.kind = "pdu"
    /\ SentPdu[1] = ATT_FIND_INFORMATION_RSP
    /\ Len(Listed) > 1
    /\ Len(Listed) < Len(InRange)

\* C34: the notification table changes only with a Write request to a CCCD
\* that is answered with the Write response: no other request and no failed
\* Write changes it, also when the request changes the flags of a CCCD.
C34_RegistryChangesOnCccdWriteOnly ==
    [][ (notification' # notification) => (~notified'.made /\ CccdWriteAnswered')
      ]_vars

\* C34 witness: a Write command or a Prepare Write has changed the flags of a
\* CCCD and the notification table is as it was
C34_Witness ==
    /\ att_in.req.op \in {"WriteCmd", "PrepareWrite"}
    /\ att_in.req.handle \in CccdHandles
    /\ attributes # SampleTable.attributes
    /\ notification = NotificationTableNew

\* what a request may change of an attribute: the flags of a CCCD
SameButCccdFlags(old, new) ==
    /\ new.handle = old.handle
    /\ new.uuid = old.uuid
    /\ new.last_handle_in_group = old.last_handle_in_group
    /\ new.data.kind = old.data.kind
    /\ old.data.kind # "Cccd" => new.data = old.data

\* C35: no request changes the number of attributes or the handle, uuid,
\* last_handle_in_group, variant or props of an attribute; of the table only
\* the notifications and indications flags of CCCD attributes change.
C35_RequestsChangeCccdFlagsOnly ==
    [][ /\ Len(attributes') = Len(attributes)
        /\ \A i \in 1..Len(attributes) :
              SameButCccdFlags(attributes[i], attributes'[i])
      ]_vars

\* C35 witness: a Write request has changed the flags of a CCCD
C35_Witness ==
    /\ CccdWriteAnswered
    /\ attributes # SampleTable.attributes
    /\ Len(attributes) = Len(SampleTable.attributes)

\* the request just taken is a Prepare Write answered with its response
PrepareWriteAnswered ==
    /\ att_in.req.op = "PrepareWrite"
    /\ att_out.kind = "pdu"
    /\ SentPdu[1] = ATT_PREPARE_WRITE_RSP

\* the flags a CCCD holds after a write of these bytes
CccdWrittenWith(bytes) == DataCccd(HasBit(bytes[1], 1), HasBit(bytes[1], 2))

\* C36: a Prepare Write writes the value to the attribute at once, at the
\* offset of the request (a CCCD written at offset 0 holds the new flags when
\* the response is out, a user value was accepted by the handler), and its
\* response echoes handle, offset and value; an Execute Write with any flags
\* is answered with 0x19 and changes neither the table nor the notification
\* table.
C36_PrepareWritesExecuteDoesNothing ==
    [][ (att_count' = att_count + 1 /\ ~notified'.made)
        => /\ PrepareWriteAnswered' =>
                 /\ SentPdu' = <<ATT_PREPARE_WRITE_RSP>>
                                  \o u16_le(att_in'.req.handle)
                                  \o u16_le(att_in'.req.offset) \o att_in'.req.data
                 /\ Addressed' > 0
                 /\ attributes'[Addressed'].data.kind = "Cccd" =>
                       /\ att_in'.req.offset = 0
                       /\ attributes'[Addressed'].data = CccdWrittenWith(att_in'.req.data)
                 /\ attributes'[Addressed'].data.kind # "Cccd" =>
                       /\ attributes'[Addressed'].data.kind = "Data"
                       /\ att_in'.h.wr_err = 0
           /\ (/\ att_in'.req.op = "PrepareWrite"
               /\ att_in'.req.handle \in CccdHandles
               /\ att_in'.req.offset = 0
               /\ att_in'.req.data # <<>>) => PrepareWriteAnswered'
           /\ att_in'.req.op = "ExecuteWrite" =>
                 /\ att_out'.kind = "pdu"
                 /\ SentPdu' = <<ATT_EXECUTE_WRITE_RSP>>
                 /\ attributes' = attributes
                 /\ notification' = notification
      ]_vars

\* C36 witness: an Execute Write that cancels was answered after a Prepare
\* Write had changed the flags of a CCCD
C36_Witness ==
    /\ att_count = 2
    /\ att_in.req.op = "ExecuteWrite"
    /\ att_in.req.flags = 0
    /\ SentPdu = <<ATT_EXECUTE_WRITE_RSP>>
    /\ notification = NotificationTableNew
    /\ \E i \in 1..Len(attributes) :
          /\ attributes[i].data.kind = "Cccd"
          /\ attributes[i].data.indications

-----------------------------------------------------------------------------
(* Properties of the client                                                 *)

\* C26: a discovery call (services_by_uuid, characteristic_by_uuid) never
\* returns the error Att(AttributeNotFound): an ERROR_RSP with that code ends
\* the loop normally.
C26_NotFoundEndsDiscovery ==
    ~(client.ret.kind = "Err" /\ client.ret.err = "Att"
      /\ client.ret.code = AttributeNotFound)

\* the services of the peer with the UUID of the latest call
Matching == SelectSeq(PeerServices, LAMBDA svc : svc.uuid = client.uuid)

\* C37: services_by_uuid does not fail for want of space when the peer has
\* at most MAX_SERVICES services with the UUID asked for, however many
\* services earlier calls of the same client found.
C37_EarlierCallsUseNoCapacity ==
    (client.ret.kind = "Err" /\ client.ret.err = "InsufficientSpace")
    => Len(Matching) > MAX_SERVICES

\* C38: an iteration of services_by_uuid that does not end the loop goes on
\* with a start handle above the one before, the response (which here always
\* holds an entry that ends at or behind the start of the request) whatever.
C38_NextStartIsGreater ==
    [][ (client.pc = "services" /\ client'.pc = "services")
        => client'.start > client.start
      ]_vars

\* the PDUs that have arrived, all of them or those with / without the
\* notification opcode
Notifications(pdus) == SelectSeq(pdus, LAMBDA pdu : pdu[1] = ATT_HANDLE_VALUE_NTF)
Responses(pdus) == SelectSeq(pdus, LAMBDA pdu : pdu[1] # ATT_HANDLE_VALUE_NTF)

\* the arrived PDUs the receive task can have handled: all but those behind
\* a response for which the response channel has no room yet
Routed ==
    LET Waiting == {k \in 1..Len(client.arrived) :
                      /\ client.arrived[k][1] # ATT_HANDLE_VALUE_NTF
                      /\ Len(Responses(SubSeq(client.arrived, 1, k)))
                           > Len(client.returned) + 1}
    IN  IF Waiting = {} THEN client.arrived
        ELSE SubSeq(client.arrived, 1,
                    (CHOOSE k \in Waiting : \A m \in Waiting : k <= m) - 1)

\* C39: of the PDUs the receive task has taken, those with the opcode 0x1B
\* were published as notifications and none of them was returned by
\* request() or is in the response channel; the others are, in the order of
\* their arrival, the PDUs request() has returned and the one in the channel;
\* and the task takes every PDU there is room for.
C39_TaskRoutesByOpcode ==
    /\ Len(client.published) = Len(Notifications(SubSeq(client.arrived, 1, client.taken)))
    /\ client.returned \o client.response_channel
         = Responses(SubSeq(client.arrived, 1, client.taken))
    /\ (client.taken < Len(Routed)) => client.task = "running"

=============================================================================
